---- MODULE Spec2Model ----
(***************************************************************************)
(* State-machine model of the gSensor firmware (ESP32 g-force gauge):      *)
(* the streaming filter (MovingAverage, SignalProcessor), the touch        *)
(* gesture recognizer (TouchManager), the two-screen UI state machine      *)
(* (UIManager) and the input-handling part of the cooperative loop.        *)
(*                                                                         *)
(* Numbers.  The firmware computes in single-precision floats.  The model  *)
(* feeds the filters integer-valued samples only, so every running sum is  *)
(* an exactly representable integer, and a float quotient sum/count is     *)
(* modelled by the exact rational <<num, den>> in lowest terms.  Division  *)
(* by a zero count (NaN/inf in the firmware) is the distinguished value    *)
(* NaN.                                                                    *)
(***************************************************************************)
EXTENDS Integers, Sequences, FiniteSets, TLC

VARIABLES
    ma,          \* one MovingAverage<float, MAWindow> under test
    maHist,      \* ghost: the samples added to ma since construction/reset (last MAWindow kept)
    processor,   \* the SignalProcessor (main.cpp: processor)
    rawHist,     \* ghost: raw samples processed since construction/reset() (last window+1 kept)
    nProcessed,  \* ghost: number of process() calls since construction/reset(), saturating
    millis,      \* the millisecond clock millis(), a uint32_t
    uptime,      \* ghost: the milliseconds since boot, not wrapped (millis is uptime
                 \* modulo 2^32)
    panel,       \* the touch controller's registers: [fingerNum, x, y]
    touchInterrupt, \* touch.cpp: volatile bool touchInterrupt, set by touchISR
    touchMgr,    \* the TouchManager (main.cpp: touchMgr)
    lastPollTime,   \* touch.cpp: static uint32_t lastPollTime of TouchManager::update
    evRet,       \* the TouchEvent returned by the last getEvent() call
    lastDuration,   \* ghost: the duration processGesture computed in the last update(), -1 if it did not run
    unreadGesture,  \* ghost: a Tap/LongPress was classified since the last getEvent()
    uiMgr,       \* the UIManager (main.cpp: uiMgr)
    settings,    \* the Settings (main.cpp: settings)
    uiEv,        \* ghost: the TouchEvent passed to the last handleTouch()
    uiRet,       \* the value returned by the last UIManager or setSampleRate call
    nTrans,      \* ghost: screen transitions (construction included) made by UIManager calls since
                 \* the previous screenChanged() call, saturating at MaxTransitions
    owedTrans,   \* ghost: those transitions less the true results screenChanged() has returned
    bleService,  \* the BleService (main.cpp: bleService)
    buttonPin,   \* the level of PIN_BUTTON: TRUE is HIGH (released), FALSE is LOW (pressed)
    lastButtonState, \* main.cpp, loop: static bool lastButtonState
    lastButtonTime,  \* main.cpp, loop: static uint32_t lastButtonTime
    now,         \* main.cpp, loop: uint32_t now
    gaugeMax,    \* display.h: Display::gaugeMax_
    pc,          \* the step of loop() to run next
    buttonNav,   \* ghost: screen switches made by the button so far, saturating at 2
    pressedFrom, \* ghost: the screen that was active when the button step of this loop
                 \* iteration honoured a press, "NONE" when it honoured none
    nLongPress,  \* ghost: LongPress gestures dispatched while MainGauge was active, saturating
    nPeakResets, \* ghost: processor.resetPeak() calls made by the peak step of loop(), saturating
    sampleFlag,  \* main.cpp: volatile bool sampleFlag, set by the sample timer ISR
    sensorOk,    \* main.cpp: bool sensorOk, the result of accel.begin() in setup()
    currentSampleRateHz, \* main.cpp: uint32_t currentSampleRateHz
    expectingRateDigit,  \* main.cpp, serialEvent: static bool expectingRateDigit
    lastBLENotifyTime,   \* main.cpp: uint32_t lastBLENotifyTime
    serialIn,    \* ghost: the characters the last serialEvent() call consumed
    serialOut,   \* ghost: the lines the code of main.cpp and ui_manager.cpp wrote to Serial
                 \* in the last step of loop() or the last command handler
    readResult,  \* ghost: what the last sample step did: "idle", "failed" or "ok"
    rateArg,     \* ghost: the rate the last setNotificationRate() or setSampleRate() call
                 \* was given, -1 if none yet
    lastPeakNotify, \* main.cpp, loop: static uint32_t lastPeakNotify
    bleTask,     \* where the loop is inside BleService::stop() and the BLE stack's task
                 \* inside onDisconnect, with what the stack holds (see BleTaskIdle)
    trueAt,      \* ghost: the uptime at which loop() last read now, and at which the
                 \* button, display and notification gates last fired (boot: 0)
    peakNote,    \* ghost: what the last notification step did about the peak: whether
                 \* a peak notification went out and the peak it carried; and the time
                 \* of the latest peak notification so far, -1 if none yet
    notifiedAt,  \* ghost: the timestamp of the last data notification sent, -1 if none yet
    notified,    \* ghost: the last notification step called bleService.notifyAccelData and it sent
    lastDisplayTime, \* main.cpp: uint32_t lastDisplayTime
    drawn,       \* ghost: what the last display step of loop() put on the display
    sampleTimerUs,   \* the alarm value of the hardware timer sampleTimer, in microseconds
    accelRate,   \* the data rate register of the ADXL375 in Hz, 0 when the device is absent
    sampleSeen,  \* the loop has read sampleFlag as set in the sample step and not yet cleared it
    unserved,    \* ghost: firings of the sample timer not yet matched by a sample read, saturating
    op           \* ghost: the last operation executed

(***************************************************************************)
(* Bounds of the model                                                     *)
(***************************************************************************)
\* window size N of the MovingAverage instance checked on its own
MAWindow == 3
\* samples fed to that instance range over -MaxSample .. MaxSample
MaxSample == 2
\* the off-axis raw sample reaches the SignalProcessor only among the first
\* MaxOffAxis process() calls after a reset
MaxOffAxis == 1
\* at most MaxSpikes spike samples within any N + 1 consecutive samples
MaxSpikes == 2
\* contacts held for 0 .. MaxDuration ms are classified
MaxDuration == 600
\* the ghost counters of screen transitions saturate at MaxTransitions
MaxTransitions == 2
\* the ghost counters of long presses and of peak resets saturate at MaxResets
MaxResets == 2
\* the ghost counter of BleService::begin and stop executions saturates here
MaxRuns == 3
\* where commands are checked the filters take at most MaxFed samples after a reset
MaxFed == 2
\* the ghost counter of timer firings that wait for their sample read saturates here
MaxUnserved == 2
\* how often the millisecond clock wraps around
MaxWraps == 1

(***************************************************************************)
(* Arithmetic helpers                                                      *)
(***************************************************************************)
Abs(i) == IF i < 0 THEN -i ELSE i

RECURSIVE GCD(_, _)
GCD(a, b) == IF b = 0 THEN a ELSE GCD(b, a % b)

\* the rational n/d (d > 0) in lowest terms
Rat(n, d) == LET g == GCD(Abs(n), d) IN <<n \div g, d \div g>>

Zero == <<0, 1>>
NaN == <<0, 0>>
FromInt(i) == <<i, 1>>

\* float division of two integer-valued floats
FDiv(a, b) == IF b = 0 THEN NaN ELSE Rat(a, b)

\* a > b on floats (false when either side is NaN, as in IEEE 754)
FGreater(a, b) == a # NaN /\ b # NaN /\ a[1] * b[2] > b[1] * a[2]

(***************************************************************************)
(* MovingAverage<T, N>  (signal_processing.h)                              *)
(* A filter is the record [buffer, index, count, sum]; buffer is indexed   *)
(* 0 .. n-1 like the C array.                                              *)
(***************************************************************************)
MovingAverageNew(n) ==
    [buffer |-> [i \in 0..(n - 1) |-> 0], index |-> 0, count |-> 0, sum |-> 0]

\* getAverage() without the guard on an empty filter
GetAverageUnguarded(f) == FDiv(f.sum, f.count)

GetAverage(f) == IF f.count = 0 THEN Zero ELSE FDiv(f.sum, f.count)

GetSampleCount(f) == f.count

IsFull(f, n) == f.count >= n

\* addSample() that never subtracts the value it evicts
AddSampleKeepOldest(f, value, n) ==
    [buffer |-> [f.buffer EXCEPT ![f.index] = value],
     index  |-> (f.index + 1) % n,
     count  |-> IF f.count < n THEN f.count + 1 ELSE f.count,
     sum    |-> f.sum + value]

\* addSample() that counts every sample, past the window size
AddSampleCountAll(f, value, n) ==
    [buffer |-> [f.buffer EXCEPT ![f.index] = value],
     index  |-> (f.index + 1) % n,
     count  |-> f.count + 1,
     sum    |-> (f.sum - f.buffer[f.index]) + value]

AddSample(f, value, n) ==
    [buffer |-> [f.buffer EXCEPT ![f.index] = value],
     index  |-> (f.index + 1) % n,
     count  |-> IF f.count < n THEN f.count + 1 ELSE f.count,
     sum    |-> (f.sum - f.buffer[f.index]) + value]

MovingAverageReset(f, n) ==
    [buffer |-> [i \in 0..(n - 1) |-> 0], index |-> 0, count |-> 0, sum |-> 0]

(***************************************************************************)
(* AccelData and SignalProcessor  (signal_processing.h / .cpp)             *)
(***************************************************************************)
\* config.h: moving average window of the four filters of SignalProcessor
MOVING_AVG_WINDOW_SIZE == 10

\* sqrtf on the perfect squares the model's samples produce
ISqrt(n) == CHOOSE m \in 0..n : m * m = n

\* AccelData::magnitude()
Magnitude(d) == ISqrt(d.x * d.x + d.y * d.y + d.z * d.z)

AccelZero == [x |-> Zero, y |-> Zero, z |-> Zero]

SignalProcessorNew ==
    [filterX_       |-> MovingAverageNew(MOVING_AVG_WINDOW_SIZE),
     filterY_       |-> MovingAverageNew(MOVING_AVG_WINDOW_SIZE),
     filterZ_       |-> MovingAverageNew(MOVING_AVG_WINDOW_SIZE),
     filterMag_     |-> MovingAverageNew(MOVING_AVG_WINDOW_SIZE),
     lastFiltered_  |-> AccelZero,
     peakMagnitude_ |-> Zero]

\* process() whose peak follows the filtered magnitude down as well as up
ProcessPeakFollows(p, raw) ==
    LET fx == AddSample(p.filterX_, raw.x, MOVING_AVG_WINDOW_SIZE)
        fy == AddSample(p.filterY_, raw.y, MOVING_AVG_WINDOW_SIZE)
        fz == AddSample(p.filterZ_, raw.z, MOVING_AVG_WINDOW_SIZE)
        fm == AddSample(p.filterMag_, Magnitude(raw), MOVING_AVG_WINDOW_SIZE)
    IN  [filterX_       |-> fx,
         filterY_       |-> fy,
         filterZ_       |-> fz,
         filterMag_     |-> fm,
         lastFiltered_  |-> [x |-> GetAverage(fx), y |-> GetAverage(fy), z |-> GetAverage(fz)],
         peakMagnitude_ |-> GetAverage(fm)]

\* process() whose peak tracks the raw magnitude instead of the filtered one
ProcessPeakRaw(p, raw) ==
    LET fx == AddSample(p.filterX_, raw.x, MOVING_AVG_WINDOW_SIZE)
        fy == AddSample(p.filterY_, raw.y, MOVING_AVG_WINDOW_SIZE)
        fz == AddSample(p.filterZ_, raw.z, MOVING_AVG_WINDOW_SIZE)
        rawMagnitude == FromInt(Magnitude(raw))
        fm == AddSample(p.filterMag_, Magnitude(raw), MOVING_AVG_WINDOW_SIZE)
    IN  [filterX_       |-> fx,
         filterY_       |-> fy,
         filterZ_       |-> fz,
         filterMag_     |-> fm,
         lastFiltered_  |-> [x |-> GetAverage(fx), y |-> GetAverage(fy), z |-> GetAverage(fz)],
         peakMagnitude_ |-> IF FGreater(rawMagnitude, p.peakMagnitude_)
                            THEN rawMagnitude ELSE p.peakMagnitude_]

\* SignalProcessor::process(raw): the processor after the call
Process(p, raw) ==
    LET fx == AddSample(p.filterX_, raw.x, MOVING_AVG_WINDOW_SIZE)
        fy == AddSample(p.filterY_, raw.y, MOVING_AVG_WINDOW_SIZE)
        fz == AddSample(p.filterZ_, raw.z, MOVING_AVG_WINDOW_SIZE)
        rawMagnitude == Magnitude(raw)
        fm == AddSample(p.filterMag_, rawMagnitude, MOVING_AVG_WINDOW_SIZE)
        filteredMag == GetAverage(fm)
    IN  [filterX_       |-> fx,
         filterY_       |-> fy,
         filterZ_       |-> fz,
         filterMag_     |-> fm,
         lastFiltered_  |-> [x |-> GetAverage(fx), y |-> GetAverage(fy), z |-> GetAverage(fz)],
         peakMagnitude_ |-> IF FGreater(filteredMag, p.peakMagnitude_)
                            THEN filteredMag ELSE p.peakMagnitude_]

GetFilteredMagnitude(p) == GetAverage(p.filterMag_)

GetPeakMagnitude(p) == p.peakMagnitude_

GetLastFiltered(p) == p.lastFiltered_

\* resetPeak() that forgets the last filtered sample as well
ResetPeakAndLast(p) == [p EXCEPT !.peakMagnitude_ = Zero, !.lastFiltered_ = AccelZero]

\* SignalProcessor::resetPeak()
\* resetPeak that leaves the peak alone
ResetPeakKeepsPeak(p) == p

ResetPeak(p) == [p EXCEPT !.peakMagnitude_ = Zero]

\* SignalProcessor::reset()
ProcessorReset(p) ==
    [filterX_       |-> MovingAverageReset(p.filterX_, MOVING_AVG_WINDOW_SIZE),
     filterY_       |-> MovingAverageReset(p.filterY_, MOVING_AVG_WINDOW_SIZE),
     filterZ_       |-> MovingAverageReset(p.filterZ_, MOVING_AVG_WINDOW_SIZE),
     filterMag_     |-> MovingAverageReset(p.filterMag_, MOVING_AVG_WINDOW_SIZE),
     lastFiltered_  |-> AccelZero,
     peakMagnitude_ |-> Zero]

(***************************************************************************)
(* The millisecond clock.  millis() is a uint32_t that wraps modulo 2^32.   *)
(* TLC's integers are 32-bit signed, so the model keeps the same modular   *)
(* arithmetic on a narrower counter that wraps modulo 2^20 ms; every       *)
(* interval the firmware measures (at most 1000 ms) is far below either.   *)
(***************************************************************************)
U32 == 2^20

\* a - b on uint32_t
\* the difference taken in a wider signed type, which does not wrap
U32SubSigned(a, b) == a - b

U32Sub(a, b) == (a - b + U32) % U32

(***************************************************************************)
(* TouchManager  (touch.h / touch.cpp)                                     *)
(***************************************************************************)
\* config.h: touch gesture timing
TOUCH_TAP_THRESHOLD_MS == 300
TOUCH_LONG_PRESS_MS == 500
\* touch.cpp, processGesture: "Minimum 50ms to filter out noise"
TOUCH_MIN_TAP_MS == 50
\* touch.cpp, update: "poll periodically even without interrupt (every 100ms)"
TOUCH_POLL_INTERVAL_MS == 100

NoEvent == [gesture |-> "NONE", x |-> 0, y |-> 0, timestamp |-> 0]

TouchManagerNew ==
    [currentEvent_   |-> NoEvent,
     initialized_    |-> FALSE,
     touching_       |-> FALSE,
     lastTouching_   |-> FALSE,
     touchX_         |-> 0,
     touchY_         |-> 0,
     touchStartTime_ |-> 0,
     eventPending_   |-> FALSE]

\* TouchManager::begin(): found is whether the controller acknowledged on I2C
TouchBegin(tm, found) == [tm EXCEPT !.initialized_ = found]

\* readTouch() that keeps the coordinates of the first contact
ReadTouchKeepsFirst(tm, pnl, t, ok) ==
    LET wasTouch == pnl.fingerNum > 0 IN
    IF ~ok THEN tm
    ELSE IF wasTouch /\ ~tm.touching_
         THEN [tm EXCEPT !.touching_ = TRUE, !.touchX_ = pnl.x, !.touchY_ = pnl.y,
                         !.touchStartTime_ = t]
    ELSE IF wasTouch
         THEN tm
    ELSE [tm EXCEPT !.touching_ = FALSE]

\* TouchManager::readTouch(): ok is whether both I2C transfers succeeded
ReadTouch(tm, pnl, t, ok) ==
    LET wasTouch == pnl.fingerNum > 0 IN
    IF ~ok THEN tm
    ELSE IF wasTouch /\ ~tm.touching_
         THEN [tm EXCEPT !.touching_ = TRUE, !.touchX_ = pnl.x, !.touchY_ = pnl.y,
                         !.touchStartTime_ = t]
    ELSE IF wasTouch
         THEN [tm EXCEPT !.touchX_ = pnl.x, !.touchY_ = pnl.y]
    ELSE [tm EXCEPT !.touching_ = FALSE]

\* processGesture() without the dead zone: every contact of 50..499 ms is a Tap
ProcessGestureNoDeadZone(tm, t) ==
    LET duration == U32Sub(t, tm.touchStartTime_) IN
    IF duration >= TOUCH_LONG_PRESS_MS
    THEN [tm EXCEPT !.currentEvent_ = [gesture |-> "LONG_PRESS", x |-> tm.touchX_,
                                       y |-> tm.touchY_, timestamp |-> t],
                    !.eventPending_ = TRUE]
    ELSE IF duration >= TOUCH_MIN_TAP_MS
    THEN [tm EXCEPT !.currentEvent_ = [gesture |-> "TAP", x |-> tm.touchX_,
                                       y |-> tm.touchY_, timestamp |-> t],
                    !.eventPending_ = TRUE]
    ELSE [tm EXCEPT !.currentEvent_.gesture = "NONE"]

\* TouchManager::processGesture()
ProcessGesture(tm, t) ==
    LET duration == U32Sub(t, tm.touchStartTime_) IN
    IF duration >= TOUCH_LONG_PRESS_MS
    THEN [tm EXCEPT !.currentEvent_ = [gesture |-> "LONG_PRESS", x |-> tm.touchX_,
                                       y |-> tm.touchY_, timestamp |-> t],
                    !.eventPending_ = TRUE]
    ELSE IF duration >= TOUCH_MIN_TAP_MS /\ duration < TOUCH_TAP_THRESHOLD_MS
    THEN [tm EXCEPT !.currentEvent_ = [gesture |-> "TAP", x |-> tm.touchX_,
                                       y |-> tm.touchY_, timestamp |-> t],
                    !.eventPending_ = TRUE]
    ELSE [tm EXCEPT !.currentEvent_.gesture = "NONE"]

\* the part of TouchManager::update() that reads the controller (lines 83-111):
\* the manager, the interrupt flag and lastPollTime after it
UpdateRead(tm, irq, lastPoll, pnl, t, pollOk, readOk) ==
    IF irq
    THEN [tm |-> ReadTouch(tm, pnl, t, readOk), irq |-> FALSE, lastPoll |-> t]
    ELSE IF tm.touching_
    THEN [tm |-> ReadTouch(tm, pnl, t, readOk), irq |-> irq, lastPoll |-> t]
    ELSE IF U32Sub(t, lastPoll) >= TOUCH_POLL_INTERVAL_MS
    THEN [tm |-> IF pollOk /\ pnl.fingerNum > 0 THEN ReadTouch(tm, pnl, t, readOk) ELSE tm,
          irq |-> irq, lastPoll |-> t]
    ELSE [tm |-> tm, irq |-> irq, lastPoll |-> lastPoll]

\* whether this update() reaches processGesture (line 114), given the state after the read
TouchEnded(tm) == tm.lastTouching_ /\ ~tm.touching_

\* update() that does not check initialized_
UpdateNoInitCheck(tm, irq, lastPoll, pnl, t, pollOk, readOk) ==
    LET r == UpdateRead(tm, irq, lastPoll, pnl, t, pollOk, readOk)
        g == IF TouchEnded(r.tm) THEN ProcessGesture(r.tm, t) ELSE r.tm
    IN  [tm |-> [g EXCEPT !.lastTouching_ = g.touching_],
         irq |-> r.irq, lastPoll |-> r.lastPoll]

\* update() that classifies a LongPress as soon as a contact has lasted 500 ms
UpdateLongPressOnHold(tm, irq, lastPoll, pnl, t, pollOk, readOk) ==
    IF ~tm.initialized_
    THEN [tm |-> tm, irq |-> irq, lastPoll |-> lastPoll]
    ELSE LET r == UpdateRead(tm, irq, lastPoll, pnl, t, pollOk, readOk)
             held == r.tm.touching_ /\ U32Sub(t, r.tm.touchStartTime_) >= TOUCH_LONG_PRESS_MS
             g == IF TouchEnded(r.tm) \/ held THEN ProcessGesture(r.tm, t) ELSE r.tm
         IN  [tm |-> [g EXCEPT !.lastTouching_ = g.touching_],
              irq |-> r.irq, lastPoll |-> r.lastPoll]

\* TouchManager::update(): the manager, the interrupt flag and lastPollTime after the call
Update(tm, irq, lastPoll, pnl, t, pollOk, readOk) ==
    IF ~tm.initialized_
    THEN [tm |-> tm, irq |-> irq, lastPoll |-> lastPoll]
    ELSE LET r == UpdateRead(tm, irq, lastPoll, pnl, t, pollOk, readOk)
             g == IF TouchEnded(r.tm) THEN ProcessGesture(r.tm, t) ELSE r.tm
         IN  [tm |-> [g EXCEPT !.lastTouching_ = g.touching_],
              irq |-> r.irq, lastPoll |-> r.lastPoll]

\* the duration processGesture computes in this update(), -1 when it does not run
UpdateDuration(tm, irq, lastPoll, pnl, t, pollOk, readOk) ==
    IF ~tm.initialized_ THEN -1
    ELSE LET r == UpdateRead(tm, irq, lastPoll, pnl, t, pollOk, readOk) IN
         IF TouchEnded(r.tm) THEN U32Sub(t, r.tm.touchStartTime_) ELSE -1

\* getEvent() that returns the pending event without clearing the flag
GetEventNoClear(tm) ==
    IF tm.eventPending_
    THEN [tm |-> tm, ev |-> tm.currentEvent_]
    ELSE [tm |-> tm, ev |-> NoEvent]

\* TouchManager::getEvent(): the manager after the call and the event returned
GetEvent(tm) ==
    IF tm.eventPending_
    THEN [tm |-> [tm EXCEPT !.eventPending_ = FALSE], ev |-> tm.currentEvent_]
    ELSE [tm |-> tm, ev |-> NoEvent]

IsTouching(tm) == tm.touching_

(***************************************************************************)
(* Settings and UIManager  (settings.h, ui_manager.h / .cpp)               *)
(***************************************************************************)
SettingsNew == [bleEnabled |-> TRUE, serialEnabled |-> TRUE]

\* ui_manager.h: action IDs
ACTION_NONE == 0
ACTION_TOGGLE_BLE == 1
ACTION_TOGGLE_SERIAL == 2
ACTION_BACK == 3

\* ui_manager.cpp: settingsRegions[]
settingsRegions ==
    << [x1 |-> 30, y1 |-> 60,  x2 |-> 210, y2 |-> 100, action |-> ACTION_TOGGLE_BLE],
       [x1 |-> 30, y1 |-> 110, x2 |-> 210, y2 |-> 150, action |-> ACTION_TOGGLE_SERIAL],
       [x1 |-> 70, y1 |-> 195, x2 |-> 170, y2 |-> 230, action |-> ACTION_BACK] >>

NUM_SETTINGS_REGIONS == Len(settingsRegions)

UIManagerNew ==
    [currentScreen_ |-> "MAIN_GAUGE", screenChanged_ |-> TRUE, peakResetPending_ |-> FALSE]

\* UIManager::hitTest: the loop over the regions from index i (1-based here)
RECURSIVE HitTestFrom(_, _, _)
HitTestFrom(i, x, y) ==
    IF i > NUM_SETTINGS_REGIONS THEN ACTION_NONE
    ELSE LET r == settingsRegions[i] IN
         IF x >= r.x1 /\ x <= r.x2 /\ y >= r.y1 /\ y <= r.y2
         THEN r.action
         ELSE HitTestFrom(i + 1, x, y)

\* hitTest with the borders of the regions excluded
HitTestExclusive(x, y) ==
    LET hits == {i \in 1..NUM_SETTINGS_REGIONS :
                    /\ x > settingsRegions[i].x1 /\ x < settingsRegions[i].x2
                    /\ y > settingsRegions[i].y1 /\ y < settingsRegions[i].y2}
    IN  IF hits = {} THEN ACTION_NONE
        ELSE settingsRegions[CHOOSE i \in hits : \A j \in hits : i <= j].action

HitTest(x, y) == HitTestFrom(1, x, y)

\* handleMainGaugeTouch whose tap also switches the wireless setting
HandleMainGaugeTouchToggling(ui, st, event) ==
    IF event.gesture = "TAP"
    THEN [ui |-> [ui EXCEPT !.currentScreen_ = "SETTINGS", !.screenChanged_ = TRUE],
          st |-> [st EXCEPT !.bleEnabled = ~st.bleEnabled]]
    ELSE IF event.gesture = "LONG_PRESS"
    THEN [ui |-> [ui EXCEPT !.peakResetPending_ = TRUE], st |-> st]
    ELSE [ui |-> ui, st |-> st]

\* UIManager::handleMainGaugeTouch: the manager and the settings after the call
HandleMainGaugeTouch(ui, st, event) ==
    IF event.gesture = "TAP"
    THEN [ui |-> [ui EXCEPT !.currentScreen_ = "SETTINGS", !.screenChanged_ = TRUE], st |-> st]
    ELSE IF event.gesture = "LONG_PRESS"
    THEN [ui |-> [ui EXCEPT !.peakResetPending_ = TRUE], st |-> st]
    ELSE [ui |-> ui, st |-> st]

\* handleSettingsTouch whose default case ignores a tap outside the regions
HandleSettingsTouchStay(ui, st, event) ==
    IF event.gesture # "TAP" THEN [ui |-> ui, st |-> st]
    ELSE LET action == HitTest(event.x, event.y) IN
         IF action = ACTION_TOGGLE_BLE
         THEN [ui |-> ui, st |-> [st EXCEPT !.bleEnabled = ~st.bleEnabled]]
         ELSE IF action = ACTION_TOGGLE_SERIAL
         THEN [ui |-> ui, st |-> [st EXCEPT !.serialEnabled = ~st.serialEnabled]]
         ELSE IF action = ACTION_BACK
         THEN [ui |-> [ui EXCEPT !.currentScreen_ = "MAIN_GAUGE", !.screenChanged_ = TRUE],
               st |-> st]
         ELSE [ui |-> ui, st |-> st]

\* UIManager::handleSettingsTouch: the manager and the settings after the call
HandleSettingsTouch(ui, st, event) ==
    IF event.gesture # "TAP" THEN [ui |-> ui, st |-> st]
    ELSE LET action == HitTest(event.x, event.y) IN
         IF action = ACTION_TOGGLE_BLE
         THEN [ui |-> ui, st |-> [st EXCEPT !.bleEnabled = ~st.bleEnabled]]
         ELSE IF action = ACTION_TOGGLE_SERIAL
         THEN [ui |-> ui, st |-> [st EXCEPT !.serialEnabled = ~st.serialEnabled]]
         ELSE IF action = ACTION_BACK
         THEN [ui |-> [ui EXCEPT !.currentScreen_ = "MAIN_GAUGE", !.screenChanged_ = TRUE],
               st |-> st]
         ELSE [ui |-> [ui EXCEPT !.currentScreen_ = "MAIN_GAUGE", !.screenChanged_ = TRUE],
               st |-> st]

\* the lines handleMainGaugeTouch and handleSettingsTouch print (ui_manager.cpp
\* lines 46, 50, 64, 69, 75) when handleTouch is called with event
HandleTouchLines(ui, st, event) ==
    IF event.gesture = "NONE" THEN <<>>
    ELSE IF ui.currentScreen_ = "MAIN_GAUGE"
    THEN IF event.gesture = "TAP" THEN <<"[UI] Opening settings">>
         ELSE IF event.gesture = "LONG_PRESS" THEN <<"[UI] Peak reset requested">>
         ELSE <<>>
    ELSE IF event.gesture # "TAP" THEN <<>>
    ELSE LET action == HitTest(event.x, event.y) IN
         IF action = ACTION_TOGGLE_BLE THEN <<"[UI] BLE">>
         ELSE IF action = ACTION_TOGGLE_SERIAL THEN <<"[UI] Serial">>
         ELSE IF action = ACTION_BACK THEN <<"[UI] Back to main gauge">>
         ELSE <<>>

\* UIManager::handleTouch: the manager, the settings and the value returned
HandleTouch(ui, st, event) ==
    IF event.gesture = "NONE" THEN [ui |-> ui, st |-> st, ret |-> FALSE]
    ELSE IF ui.currentScreen_ = "MAIN_GAUGE"
    THEN LET r == HandleMainGaugeTouch(ui, st, event) IN [ui |-> r.ui, st |-> r.st, ret |-> TRUE]
    ELSE LET r == HandleSettingsTouch(ui, st, event) IN [ui |-> r.ui, st |-> r.st, ret |-> TRUE]

GetScreen(ui) == ui.currentScreen_

\* UIManager::setScreen
SetScreen(ui, screen) ==
    IF ui.currentScreen_ # screen
    THEN [ui EXCEPT !.currentScreen_ = screen, !.screenChanged_ = TRUE]
    ELSE ui

\* screenChanged() that reports the flag without clearing it
ScreenChangedNoClear(ui) == [ui |-> ui, ret |-> ui.screenChanged_]

\* UIManager::screenChanged: the manager after the call and the value returned
ScreenChanged(ui) ==
    IF ui.screenChanged_
    THEN [ui |-> [ui EXCEPT !.screenChanged_ = FALSE], ret |-> TRUE]
    ELSE [ui |-> ui, ret |-> FALSE]

\* peakResetRequested() that reports the request without clearing it
PeakResetRequestedNoClear(ui) == [ui |-> ui, ret |-> ui.peakResetPending_]

\* UIManager::peakResetRequested: the manager after the call and the value returned
PeakResetRequested(ui) ==
    IF ui.peakResetPending_
    THEN [ui |-> [ui EXCEPT !.peakResetPending_ = FALSE], ret |-> TRUE]
    ELSE [ui |-> ui, ret |-> FALSE]

(***************************************************************************)
(* BleService  (ble_service.h / .cpp): the enable state.                   *)
(* started stands for the NimBLE pointers (pServer_ ... pAdvertising_)     *)
(* being non-null: begin() sets them all, stop() clears them all.          *)
(***************************************************************************)
\* config.h
BLE_DEFAULT_NOTIFY_RATE_HZ == 20

\* (runs is a ghost: the number of begin() and stop() executions so far,
\* saturating at MaxRuns)
BleServiceNew ==
    [started |-> FALSE, deviceConnected_ |-> FALSE, bleEnabled_ |-> FALSE,
     notificationRateHz_ |-> BLE_DEFAULT_NOTIFY_RATE_HZ, runs |-> 0]

\* ghost bookkeeping: one more execution
CountRun(n) == IF n < MaxRuns THEN n + 1 ELSE n

\* BleService::begin
BleBegin(b) ==
    [b EXCEPT !.started = TRUE, !.bleEnabled_ = TRUE, !.runs = CountRun(b.runs)]

\* stop() that forgets to mark the peer as gone
BleStopKeepsPeer(b) ==
    [b EXCEPT !.started = FALSE, !.bleEnabled_ = FALSE, !.runs = CountRun(b.runs)]

\* BleService::stop
BleStop(b) ==
    [b EXCEPT !.started = FALSE, !.deviceConnected_ = FALSE, !.bleEnabled_ = FALSE,
              !.runs = CountRun(b.runs)]

\* setEnabled without the test for an unchanged value
BleSetEnabledAlways(b, enabled) ==
    IF enabled THEN BleBegin(b) ELSE BleStop(b)

\* setEnabled that starts the service but never stops it
BleSetEnabledOnlyOn(b, enabled) ==
    IF enabled /\ ~b.bleEnabled_ THEN BleBegin(b) ELSE b

\* BleService::setEnabled
BleSetEnabled(b, enabled) ==
    IF enabled = b.bleEnabled_ THEN b
    ELSE IF enabled THEN BleBegin(b) ELSE BleStop(b)

(***************************************************************************)
(* Sampling rate  (main.cpp)                                               *)
(***************************************************************************)
\* the rates the serial commands s1..s4 request (main.cpp, serialEvent)
ADXL_RATE_100HZ == 100
ADXL_RATE_200HZ == 200
ADXL_RATE_400HZ == 400
ADXL_RATE_800HZ == 800
\* the rate the sample timer is configured for in setup()
ADXL_DEFAULT_SAMPLE_RATE_HZ == 100

\* setSampleRate that applies the nearest bound to a rate outside 100..800
SetSampleRateClamping(current, rateHz) ==
    IF rateHz \in {100, 200, 400, 800}
    THEN [rate |-> rateHz, ret |-> TRUE, out |-> <<"Sample rate">>]
    ELSE IF rateHz < 100 THEN [rate |-> 100, ret |-> TRUE, out |-> <<>>]
    ELSE IF rateHz > 800 THEN [rate |-> 800, ret |-> TRUE, out |-> <<>>]
    ELSE [rate |-> current, ret |-> FALSE, out |-> <<"Invalid rate">>]

\* setSampleRate: the rate in force, the value returned and the line printed
SetSampleRate(current, rateHz) ==
    IF rateHz \in {100, 200, 400, 800}
    THEN [rate |-> rateHz, ret |-> TRUE, out |-> <<"Sample rate">>]
    ELSE [rate |-> current, ret |-> FALSE, out |-> <<"Invalid rate">>]

\* setSampleRate that programs the timer before it has validated the rate
SetSampleRateTimerFirst(us, current, rateHz) ==
    IF rateHz > 0 THEN 1000000 \div rateHz ELSE us

\* setSampleRate, lines 75-81: the alarm value of sampleTimer after the call,
\* us before it
SetSampleRateTimer(us, current, rateHz) ==
    LET r == SetSampleRate(current, rateHz) IN
        IF r.ret THEN 1000000 \div r.rate ELSE us

\* setSampleRate, lines 61-73: the data rate of the ADXL375 after the call,
\* rate before it; Accelerometer::setDataRate does nothing without a device
SetSampleRateAccel(rate, current, rateHz, present) ==
    LET r == SetSampleRate(current, rateHz) IN
        IF r.ret /\ present THEN r.rate ELSE rate

\* config.h
BLE_MAX_NOTIFY_RATE_HZ == 50
BLE_MIN_NOTIFY_RATE_HZ == 5

\* variant of setNotificationRate that clamps from below only
SetNotificationRateNoUpper(b, rateHz) ==
    [b EXCEPT !.notificationRateHz_ =
        IF rateHz < BLE_MIN_NOTIFY_RATE_HZ THEN BLE_MIN_NOTIFY_RATE_HZ ELSE rateHz]

\* BleService::setNotificationRate
SetNotificationRate(b, rateHz) ==
    [b EXCEPT !.notificationRateHz_ =
        IF rateHz < BLE_MIN_NOTIFY_RATE_HZ THEN BLE_MIN_NOTIFY_RATE_HZ
        ELSE IF rateHz > BLE_MAX_NOTIFY_RATE_HZ THEN BLE_MAX_NOTIFY_RATE_HZ
        ELSE rateHz]

\* BleService::getNotificationRate
GetNotificationRate(b) == b.notificationRateHz_

\* BleService::isEnabled
IsEnabled(b) == b.bleEnabled_

\* BleService::isConnected
IsConnected(b) == b.deviceConnected_

\* BleService::onConnect
OnConnect(b) == [b EXCEPT !.deviceConnected_ = TRUE]

\* BleService::onDisconnect
OnDisconnect(b) == [b EXCEPT !.deviceConnected_ = FALSE]

\* BleService::notifyAccelData: whether the notification is sent
NotifyAccelData(b) == b.deviceConnected_ /\ b.started

(***************************************************************************)
(* Display  (display.cpp): the gauge scale                                 *)
(***************************************************************************)
\* display.cpp
DEFAULT_GAUGE_MAX == 10

\* resetGaugeMax that steps the scale down one range per call
ResetGaugeMaxStepDown(g) ==
    IF g > 100 THEN 100 ELSE IF g > 50 THEN 50 ELSE IF g > 20 THEN 20 ELSE DEFAULT_GAUGE_MAX

\* Display::resetGaugeMax
ResetGaugeMax(g) == DEFAULT_GAUGE_MAX

\* Display::update (lines 75-87): the gauge scale after drawing magnitude
DisplayUpdate(g, magnitude) ==
    IF FGreater(magnitude, FromInt(g))
    THEN IF ~FGreater(magnitude, FromInt(10)) THEN 10
         ELSE IF ~FGreater(magnitude, FromInt(20)) THEN 20
         ELSE IF ~FGreater(magnitude, FromInt(50)) THEN 50
         ELSE IF ~FGreater(magnitude, FromInt(100)) THEN 100
         ELSE 200
    ELSE g

\* config.h
DISPLAY_UPDATE_INTERVAL_MS == 100

\* ghost: the display step did not refresh
NotDrawn ==
    [refreshed |-> FALSE, prepared |-> FALSE, screen |-> "NONE",
     data |-> AccelZero, magnitude |-> Zero, peak |-> Zero]

\* the display step that prepares the screen on every refresh
DisplayStepPrepareAlways(st, t, sensor, proc) ==
    IF U32Sub(t, st.last) >= DISPLAY_UPDATE_INTERVAL_MS
    THEN LET c == ScreenChanged(st.ui) IN
         [ui |-> c.ui, last |-> t, gauge |-> st.gauge,
          drawn |-> [refreshed |-> TRUE, prepared |-> TRUE, screen |-> GetScreen(c.ui),
                     data |-> AccelZero, magnitude |-> Zero, peak |-> Zero]]
    ELSE [st EXCEPT !.drawn = NotDrawn]

\* main.cpp lines 285-311, the display step at loop time t; sensor is
\* sensorOk and proc the SignalProcessor.  st holds ui (the UIManager), last
\* (lastDisplayTime), gauge (Display::gaugeMax_) and the ghost drawn:
\* whether the step refreshed, whether it called display.prepareScreen(),
\* the screen it drew and the values display.update() was given
DisplayStep(st, t, sensor, proc) ==
    IF U32Sub(t, st.last) >= DISPLAY_UPDATE_INTERVAL_MS
    THEN LET c == ScreenChanged(st.ui)
             accelData == IF sensor THEN GetLastFiltered(proc) ELSE AccelZero
             magnitude == IF sensor THEN GetFilteredMagnitude(proc) ELSE Zero
             peak == IF sensor THEN GetPeakMagnitude(proc) ELSE Zero
         IN  IF GetScreen(c.ui) = "MAIN_GAUGE"
             THEN [ui |-> c.ui, last |-> t,
                   gauge |-> DisplayUpdate(st.gauge, magnitude),
                   drawn |-> [refreshed |-> TRUE, prepared |-> c.ret, screen |-> "MAIN_GAUGE",
                              data |-> accelData, magnitude |-> magnitude, peak |-> peak]]
             ELSE [ui |-> c.ui, last |-> t, gauge |-> st.gauge,
                   drawn |-> [refreshed |-> TRUE, prepared |-> c.ret, screen |-> "SETTINGS",
                              data |-> AccelZero, magnitude |-> Zero, peak |-> Zero]]
    ELSE [st EXCEPT !.drawn = NotDrawn]

(***************************************************************************)
(* Serial command intake  (main.cpp: serialEvent)                          *)
(***************************************************************************)
\* config.h
DEBUG_ENABLED == TRUE

\* the rate the digit after 's' asks for (lines 363-366)
RateOfDigit(cmd) ==
    CASE cmd = "1" -> ADXL_RATE_100HZ
      [] cmd = "2" -> ADXL_RATE_200HZ
      [] cmd = "3" -> ADXL_RATE_400HZ
      [] cmd = "4" -> ADXL_RATE_800HZ

\* the parser that takes a character other than 1..4 after 's' as a command
SerialCharFallsThrough(st, cmd, st_settings) ==
    LET command(s) ==
            CASE cmd \in {"r", "R"} ->
                    [s EXCEPT !.proc = ResetPeak(s.proc),
                              !.gauge = ResetGaugeMax(s.gauge),
                              !.out = IF DEBUG_ENABLED /\ st_settings.serialEnabled
                                      THEN Append(s.out, "Peak reset") ELSE s.out]
              [] cmd \in {"c", "C"} ->
                    [s EXCEPT !.proc = ProcessorReset(s.proc),
                              !.hist = <<>>, !.n = 0,
                              !.out = IF DEBUG_ENABLED /\ st_settings.serialEnabled
                                      THEN Append(s.out, "Filters reset") ELSE s.out]
              [] cmd \in {"s", "S"} -> [s EXCEPT !.expecting = TRUE]
              [] cmd = "?" -> [s EXCEPT !.out = Append(s.out, "Rate")]
              [] OTHER -> s
    IN  IF st.expecting
        THEN IF cmd \in {"1", "2", "3", "4"}
             THEN LET r == SetSampleRate(st.rate, RateOfDigit(cmd)) IN
                  [st EXCEPT !.expecting = FALSE, !.rate = r.rate,
                             !.timer = SetSampleRateTimer(st.timer, st.rate, RateOfDigit(cmd)),
                             !.accel = SetSampleRateAccel(st.accel, st.rate, RateOfDigit(cmd),
                                                          st.present),
                             !.arg = RateOfDigit(cmd), !.out = st.out \o r.out]
             ELSE command([st EXCEPT !.expecting = FALSE])
        ELSE command(st)

\* one turn of the while loop of serialEvent on the character cmd; st holds
\* expecting (expectingRateDigit), rate (currentSampleRateHz), timer (the
\* alarm value of sampleTimer), accel (the data rate of the sensor), present
\* (whether the sensor answered in setup()), proc, gauge,
\* the ghosts hist and n of the processor, the ghost arg (the rate last
\* passed to setSampleRate) and out, the lines printed so far
SerialChar(st, cmd, st_settings) ==
    IF st.expecting
    THEN IF cmd \in {"1", "2", "3", "4"}
         THEN LET r == SetSampleRate(st.rate, RateOfDigit(cmd)) IN
              [st EXCEPT !.expecting = FALSE, !.rate = r.rate,
                         !.timer = SetSampleRateTimer(st.timer, st.rate, RateOfDigit(cmd)),
                         !.accel = SetSampleRateAccel(st.accel, st.rate, RateOfDigit(cmd),
                                                      st.present),
                         !.arg = RateOfDigit(cmd), !.out = st.out \o r.out]
         ELSE [st EXCEPT !.expecting = FALSE, !.out = Append(st.out, "Invalid rate. Use s1-s4")]
    ELSE CASE cmd \in {"r", "R"} ->
                [st EXCEPT !.proc = ResetPeak(st.proc),
                           !.gauge = ResetGaugeMax(st.gauge),
                           !.out = IF DEBUG_ENABLED /\ st_settings.serialEnabled
                                   THEN Append(st.out, "Peak reset") ELSE st.out]
           [] cmd \in {"c", "C"} ->
                [st EXCEPT !.proc = ProcessorReset(st.proc),
                           !.hist = <<>>, !.n = 0,
                           !.out = IF DEBUG_ENABLED /\ st_settings.serialEnabled
                                   THEN Append(st.out, "Filters reset") ELSE st.out]
           [] cmd \in {"s", "S"} -> [st EXCEPT !.expecting = TRUE]
           [] cmd = "?" -> [st EXCEPT !.out = Append(st.out, "Rate")]
           [] OTHER -> st

\* serialEvent: every available character in turn
RECURSIVE SerialEvent(_, _, _)
SerialEvent(st, input, st_settings) ==
    IF input = <<>> THEN st
    ELSE SerialEvent(SerialChar(st, Head(input), st_settings), Tail(input), st_settings)

(***************************************************************************)
(* BLE commands  (main.cpp: the command callback registered in setup())    *)
(***************************************************************************)
\* config.h
BLE_CMD_RESET_PEAK == 1
BLE_CMD_RESET_FILTERS == 2

\* the callback on the command byte cmd; st holds proc, gauge and the ghosts
\* hist and n of the processor
CommandCallback(st, cmd) ==
    CASE cmd = BLE_CMD_RESET_PEAK ->
            [st EXCEPT !.proc = ResetPeak(st.proc), !.gauge = ResetGaugeMax(st.gauge)]
      [] cmd = BLE_CMD_RESET_FILTERS ->
            [st EXCEPT !.proc = ProcessorReset(st.proc), !.hist = <<>>, !.n = 0]
      [] OTHER -> st

(***************************************************************************)
(* Variable groups                                                         *)
(***************************************************************************)
maVars == <<ma, maHist>>
procVars == <<processor, rawHist, nProcessed>>
envVars == <<millis, uptime, panel, buttonPin>>
touchVars == <<touchInterrupt, touchMgr, lastPollTime, evRet, lastDuration, unreadGesture>>
uiVars == <<uiMgr, settings, uiEv, uiRet, nTrans, owedTrans>>
peakVars == <<lastPeakNotify, peakNote>>
\* hwVars without trueAt and bleTask
hwRest == <<lastDisplayTime, drawn, sampleTimerUs, accelRate, sampleSeen, unserved, peakVars>>
hwVars == <<hwRest, trueAt, bleTask>>
ioVars == <<sampleFlag, sensorOk, currentSampleRateHz, expectingRateDigit, lastBLENotifyTime,
           serialIn, serialOut, readResult, notified, notifiedAt, rateArg, hwVars>>
\* ioVars without serialOut
ioRest == <<sampleFlag, sensorOk, currentSampleRateHz, expectingRateDigit, lastBLENotifyTime,
            serialIn, readResult, notified, notifiedAt, rateArg, hwVars>>
loopVars == <<bleService, lastButtonState, lastButtonTime, now, gaugeMax, pc, buttonNav,
             pressedFrom, nLongPress, nPeakResets, ioVars>>

vars == <<ma, maHist, processor, rawHist, nProcessed, millis, uptime, panel, buttonPin,
          touchInterrupt, touchMgr, lastPollTime, evRet, lastDuration, unreadGesture,
          uiMgr, settings, uiEv, uiRet, nTrans, owedTrans,
          bleService, lastButtonState, lastButtonTime, now, gaugeMax, pc, buttonNav,
          pressedFrom, nLongPress, nPeakResets,
          sampleFlag, sensorOk, currentSampleRateHz, expectingRateDigit, lastBLENotifyTime,
          serialIn, serialOut, readResult, notified, notifiedAt, rateArg,
          lastDisplayTime, drawn, sampleTimerUs, accelRate, sampleSeen, unserved,
          lastPeakNotify, peakNote, trueAt, bleTask, op>>

\* ghost bookkeeping: the most recent n samples of a history
KeepLast(h, n) == IF Len(h) > n THEN SubSeq(h, Len(h) - n + 1, Len(h)) ELSE h

(***************************************************************************)
(* Operations on one MovingAverage (specification SpecMA)                  *)
(***************************************************************************)
MASamples == (-MaxSample)..MaxSample

MAAddSample(v) ==
    /\ ma' = AddSample(ma, v, MAWindow)
    /\ maHist' = KeepLast(Append(maHist, v), MAWindow)
    /\ op' = "addSample"
    /\ UNCHANGED <<procVars, envVars, touchVars, uiVars, loopVars>>

MAReset ==
    /\ ma' = MovingAverageReset(ma, MAWindow)
    /\ maHist' = <<>>
    /\ op' = "reset"
    /\ UNCHANGED <<procVars, envVars, touchVars, uiVars, loopVars>>

(***************************************************************************)
(* Operations on the SignalProcessor (specification SpecProc)              *)
(***************************************************************************)
\* raw samples (integer-valued, with an integer Euclidean norm): rest under
\* gravity, the 50 g spike, and an off-axis sample of norm 5
RestSample == [x |-> 0, y |-> 0, z |-> 1]
SpikeSample == [x |-> 0, y |-> 0, z |-> 50]
OffAxisSample == [x |-> 3, y |-> 4, z |-> 0]

ProcSamples == {RestSample, SpikeSample, OffAxisSample}

\* the ghost counter of process() calls saturates here
ProcCountCap == MOVING_AVG_WINDOW_SIZE + 2

\* how often the spike occurs among the samples of h
SpikesIn(h) == Cardinality({i \in DOMAIN h : h[i] = SpikeSample})

\* the off-axis sample is fed only among the first MaxOffAxis samples after a
\* reset, and at most MaxSpikes spikes fall into any run of N + 1 samples
\* (this keeps the reachable filter contents finite and small)
ProcProcess(raw) ==
    /\ raw = OffAxisSample => nProcessed < MaxOffAxis
    /\ raw = SpikeSample => SpikesIn(rawHist) < MaxSpikes
    /\ processor' = Process(processor, raw)
    /\ rawHist' = KeepLast(Append(rawHist, raw), MOVING_AVG_WINDOW_SIZE + 1)
    /\ nProcessed' = IF nProcessed < ProcCountCap THEN nProcessed + 1 ELSE nProcessed
    /\ op' = "process"
    /\ UNCHANGED <<maVars, envVars, touchVars, uiVars, loopVars>>

ProcResetPeak ==
    /\ processor' = ResetPeak(processor)
    /\ op' = "resetPeak"
    /\ UNCHANGED <<rawHist, nProcessed>>
    /\ UNCHANGED <<maVars, envVars, touchVars, uiVars, loopVars>>

ProcReset ==
    /\ processor' = ProcessorReset(processor)
    /\ rawHist' = <<>>
    /\ nProcessed' = 0
    /\ op' = "reset"
    /\ UNCHANGED <<maVars, envVars, touchVars, uiVars, loopVars>>

(***************************************************************************)
(* The environment: the clock, the touch panel, the button                 *)
(***************************************************************************)
\* the clock advances to a later instant t
Tick(t) ==
    /\ t > millis
    /\ millis' = t
    /\ uptime' = uptime + (t - millis)
    /\ UNCHANGED <<panel, buttonPin>>
    /\ UNCHANGED <<maVars, procVars, touchVars, uiVars, loopVars>>
    /\ op' = "env"

\* the clock passes 2^32 - 1 and wraps around to the instant t
ClockWrap(t) ==
    /\ t < millis
    /\ uptime < MaxWraps * U32
    /\ millis' = t
    /\ uptime' = uptime + (U32 - millis) + t
    /\ UNCHANGED <<panel, buttonPin>>
    /\ UNCHANGED <<maVars, procVars, touchVars, uiVars, loopVars>>
    /\ op' = "env"

\* a finger lands on the panel at point pt
FingerDown(pt) ==
    /\ panel.fingerNum = 0
    /\ panel' = [fingerNum |-> 1, x |-> pt[1], y |-> pt[2]]
    /\ UNCHANGED <<millis, uptime, buttonPin>>
    /\ UNCHANGED <<maVars, procVars, touchVars, uiVars, loopVars>>
    /\ op' = "env"

\* the finger moves to point pt
FingerMove(pt) ==
    /\ panel.fingerNum = 1
    /\ <<panel.x, panel.y>> # pt
    /\ panel' = [panel EXCEPT !.x = pt[1], !.y = pt[2]]
    /\ UNCHANGED <<millis, uptime, buttonPin>>
    /\ UNCHANGED <<maVars, procVars, touchVars, uiVars, loopVars>>
    /\ op' = "env"

\* the finger lifts
FingerUp ==
    /\ panel.fingerNum = 1
    /\ panel' = [panel EXCEPT !.fingerNum = 0]
    /\ UNCHANGED <<millis, uptime, buttonPin>>
    /\ UNCHANGED <<maVars, procVars, touchVars, uiVars, loopVars>>
    /\ op' = "env"

\* touch.cpp: touchISR (the controller pulls PIN_TOUCH_INT low; some variants
\* do so unreliably, so the interrupt may come at any time or not at all)
TouchISR ==
    /\ ~touchInterrupt
    /\ touchInterrupt' = TRUE
    /\ UNCHANGED <<touchMgr, lastPollTime, evRet, lastDuration, unreadGesture>>
    /\ UNCHANGED <<maVars, procVars, envVars, uiVars, loopVars>>
    /\ op' = "env"

\* the user presses (level LOW) or releases (level HIGH) the button
ButtonChange ==
    /\ buttonPin' = ~buttonPin
    /\ UNCHANGED <<millis, uptime, panel>>
    /\ UNCHANGED <<maVars, procVars, touchVars, uiVars, loopVars>>
    /\ op' = "env"

(***************************************************************************)
(* Calls on the TouchManager (specifications SpecTouch, SpecGesture)       *)
(***************************************************************************)
\* touchMgr.update(); pollOk, readOk: whether the I2C transfers succeed
TMUpdate(pollOk, readOk) ==
    LET r == Update(touchMgr, touchInterrupt, lastPollTime, panel, millis, pollOk, readOk)
        d == UpdateDuration(touchMgr, touchInterrupt, lastPollTime, panel, millis, pollOk, readOk)
    IN  /\ touchMgr' = r.tm
        /\ touchInterrupt' = r.irq
        /\ lastPollTime' = r.lastPoll
        /\ lastDuration' = d
        /\ unreadGesture' = IF d # -1 /\ r.tm.currentEvent_.gesture # "NONE"
                            THEN TRUE ELSE unreadGesture
        /\ op' = "update"
        /\ UNCHANGED evRet
        /\ UNCHANGED <<maVars, procVars, envVars, uiVars, loopVars>>

\* touchMgr.getEvent()
TMGetEvent ==
    LET r == GetEvent(touchMgr) IN
        /\ touchMgr' = r.tm
        /\ evRet' = r.ev
        /\ unreadGesture' = FALSE
        /\ op' = "getEvent"
        /\ UNCHANGED <<touchInterrupt, lastPollTime, lastDuration>>
        /\ UNCHANGED <<maVars, procVars, envVars, uiVars, loopVars>>

(***************************************************************************)
(* Calls on the UIManager (specification SpecUI)                           *)
(***************************************************************************)
\* ghost bookkeeping: the counter n after a call that took the UIManager from ui to after
CountTransition(n, ui, after) ==
    IF after.currentScreen_ # ui.currentScreen_ /\ n < MaxTransitions THEN n + 1 ELSE n

UIHandleTouch(event) ==
    LET r == HandleTouch(uiMgr, settings, event) IN
        /\ uiMgr' = r.ui
        /\ nTrans' = CountTransition(nTrans, uiMgr, r.ui)
        /\ owedTrans' = CountTransition(owedTrans, uiMgr, r.ui)
        /\ settings' = r.st
        /\ uiEv' = event
        /\ uiRet' = r.ret
        /\ op' = "handleTouch"
        /\ UNCHANGED <<maVars, procVars, envVars, touchVars, loopVars>>

UISetScreen(screen) ==
    /\ uiMgr' = SetScreen(uiMgr, screen)
    /\ nTrans' = CountTransition(nTrans, uiMgr, SetScreen(uiMgr, screen))
    /\ owedTrans' = CountTransition(owedTrans, uiMgr, SetScreen(uiMgr, screen))
    /\ op' = "setScreen"
    /\ UNCHANGED <<settings, uiEv, uiRet>>
    /\ UNCHANGED <<maVars, procVars, envVars, touchVars, loopVars>>

UIScreenChanged ==
    LET r == ScreenChanged(uiMgr) IN
        /\ uiMgr' = r.ui
        /\ uiRet' = r.ret
        /\ nTrans' = 0
        /\ owedTrans' = IF r.ret /\ owedTrans > 0 THEN owedTrans - 1 ELSE owedTrans
        /\ op' = "screenChanged"
        /\ UNCHANGED <<settings, uiEv>>
        /\ UNCHANGED <<maVars, procVars, envVars, touchVars, loopVars>>

UIPeakResetRequested ==
    LET r == PeakResetRequested(uiMgr) IN
        /\ uiMgr' = r.ui
        /\ uiRet' = r.ret
        /\ op' = "peakResetRequested"
        /\ UNCHANGED <<settings, uiEv, nTrans, owedTrans>>
        /\ UNCHANGED <<maVars, procVars, envVars, touchVars, loopVars>>

(***************************************************************************)
(* The input-handling steps of loop()  (main.cpp lines 244-283), run in    *)
(* program order: pc names the step to run next.                           *)
(***************************************************************************)
\* main.cpp: the debounce interval of the button
BUTTON_DEBOUNCE_MS == 200

\* whether the button step honours a level change (line 251)
ButtonHonoured(level, last, lastTime, t) ==
    level # last /\ U32Sub(t, lastTime) > BUTTON_DEBOUNCE_MS

\* the button step that opens Settings but never leaves it
ButtonToggleOpenOnly(ui, level) ==
    IF level = FALSE /\ GetScreen(ui) = "MAIN_GAUGE"
    THEN SetScreen(ui, "SETTINGS")
    ELSE ui

\* the UIManager after the button step's toggle (lines 253-262)
ButtonToggle(ui, level) ==
    IF level = FALSE
    THEN IF GetScreen(ui) = "MAIN_GAUGE"
         THEN SetScreen(ui, "SETTINGS")
         ELSE SetScreen(ui, "MAIN_GAUGE")
    ELSE ui

\* the line the button step prints (lines 257, 260)
ButtonLines(ui, level) ==
    IF level = FALSE
    THEN IF GetScreen(ui) = "MAIN_GAUGE"
         THEN <<"[Button] Opening settings">>
         ELSE <<"[Button] Back to gauge">>
    ELSE <<>>

\* lines 244-264: read the clock, handle the physical button
LoopButton ==
    /\ pc = "button"
    /\ now' = millis
    /\ IF ButtonHonoured(buttonPin, lastButtonState, lastButtonTime, millis)
       THEN /\ lastButtonTime' = millis
            /\ UNCHANGED bleTask
            /\ trueAt' = [trueAt EXCEPT !.now = uptime, !.button = uptime]
            /\ uiMgr' = ButtonToggle(uiMgr, buttonPin)
            /\ lastButtonState' = buttonPin
            /\ buttonNav' = IF ~buttonPin /\ buttonNav < 2 THEN buttonNav + 1 ELSE buttonNav
            /\ pressedFrom' = IF ~buttonPin THEN GetScreen(uiMgr) ELSE "NONE"
            /\ serialOut' = ButtonLines(uiMgr, buttonPin)
       ELSE /\ UNCHANGED <<lastButtonTime, uiMgr, lastButtonState, buttonNav>>
            /\ UNCHANGED bleTask
            /\ trueAt' = [trueAt EXCEPT !.now = uptime]
            /\ pressedFrom' = "NONE"
            /\ serialOut' = <<>>
    /\ nTrans' = CountTransition(nTrans, uiMgr, uiMgr')
    /\ owedTrans' = CountTransition(owedTrans, uiMgr, uiMgr')
    /\ pc' = "touch"
    /\ op' = "button"
    /\ UNCHANGED <<settings, uiEv, uiRet, bleService, gaugeMax>>
    /\ UNCHANGED <<nLongPress, nPeakResets, sampleFlag, sensorOk, currentSampleRateHz,
                   expectingRateDigit, lastBLENotifyTime, serialIn, readResult, notified,
                   notifiedAt, rateArg, hwRest>>
    /\ UNCHANGED <<maVars, procVars, envVars, touchVars>>

\* lines 266-274: poll the touch manager, dispatch a gesture, apply the BLE setting
LoopTouch(pollOk, readOk) ==
    LET u == Update(touchMgr, touchInterrupt, lastPollTime, panel, millis, pollOk, readOk)
        d == UpdateDuration(touchMgr, touchInterrupt, lastPollTime, panel, millis, pollOk, readOk)
        g == GetEvent(u.tm)
        h == HandleTouch(uiMgr, settings, g.ev)
    IN  /\ pc = "touch"
        /\ touchMgr' = g.tm
        /\ touchInterrupt' = u.irq
        /\ lastPollTime' = u.lastPoll
        /\ lastDuration' = d
        /\ unreadGesture' = FALSE
        /\ evRet' = g.ev
        /\ IF g.ev.gesture # "NONE"
           THEN /\ uiMgr' = h.ui
                /\ settings' = h.st
                /\ uiEv' = g.ev
                /\ uiRet' = h.ret
                /\ bleService' = BleSetEnabled(bleService, h.st.bleEnabled)
                /\ serialOut' = HandleTouchLines(uiMgr, settings, g.ev)
           ELSE /\ UNCHANGED <<uiMgr, settings, uiEv, uiRet, bleService>>
                /\ serialOut' = <<>>
        /\ pc' = "peak"
        /\ op' = "touch"
        /\ nLongPress' = IF /\ g.ev.gesture = "LONG_PRESS"
                             /\ GetScreen(uiMgr) = "MAIN_GAUGE"
                             /\ nLongPress < MaxResets
                          THEN nLongPress + 1 ELSE nLongPress
        /\ nTrans' = CountTransition(nTrans, uiMgr, uiMgr')
        /\ owedTrans' = CountTransition(owedTrans, uiMgr, uiMgr')
        /\ UNCHANGED <<pressedFrom, nPeakResets, ioRest>>
        /\ UNCHANGED <<lastButtonState, lastButtonTime, now, gaugeMax, buttonNav>>
        /\ UNCHANGED <<maVars, procVars, envVars>>

\* lines 276-283: the peak reset requested by a long press
LoopPeakReset ==
    LET r == PeakResetRequested(uiMgr) IN
        /\ pc = "peak"
        /\ uiMgr' = r.ui
        /\ uiRet' = r.ret
        /\ IF r.ret
           THEN /\ processor' = ResetPeak(processor)
                /\ gaugeMax' = ResetGaugeMax(gaugeMax)
                /\ nPeakResets' = IF nPeakResets < MaxResets
                                  THEN nPeakResets + 1 ELSE nPeakResets
           ELSE UNCHANGED <<processor, gaugeMax, nPeakResets>>
        /\ serialOut' = IF r.ret /\ DEBUG_ENABLED /\ settings.serialEnabled
                        THEN <<"Peak reset (touch)">> ELSE <<>>
        /\ pc' = "button"
        /\ op' = "peak"
        /\ UNCHANGED <<settings, uiEv, nTrans, owedTrans, rawHist, nProcessed>>
        /\ UNCHANGED <<bleService, lastButtonState, lastButtonTime, now, buttonNav>>
        /\ UNCHANGED <<pressedFrom, nLongPress, ioRest>>
        /\ UNCHANGED <<maVars, envVars, touchVars>>

(***************************************************************************)
(* The other steps of loop(): sample ingestion, notification, serial       *)
(* commands; and the callbacks of the BLE stack                            *)
(***************************************************************************)
\* the sample step that feeds a zero sample to the filters when the read fails
SampleStepZeroOnFail(st, readOk, raw, st_settings) ==
    IF st.flag /\ st.sensorOk
    THEN LET r == IF readOk THEN raw ELSE [x |-> 0, y |-> 0, z |-> 0] IN
         [st EXCEPT !.flag = FALSE,
                    !.proc = Process(st.proc, r),
                    !.hist = KeepLast(Append(st.hist, r), MOVING_AVG_WINDOW_SIZE + 1),
                    !.n = IF st.n < ProcCountCap THEN st.n + 1 ELSE st.n,
                    !.out = IF readOk /\ DEBUG_ENABLED /\ st_settings.serialEnabled
                            THEN <<"csv">> ELSE <<>>,
                    !.result = IF readOk THEN "ok" ELSE "failed"]
    ELSE [st EXCEPT !.out = <<>>, !.result = "idle"]

\* the sample step that reads the sensor although its initialization failed
SampleStepIgnoresSensor(st, readOk, raw, st_settings) ==
    IF st.flag
    THEN IF readOk
         THEN [st EXCEPT !.flag = FALSE,
                         !.proc = Process(st.proc, raw),
                         !.hist = KeepLast(Append(st.hist, raw), MOVING_AVG_WINDOW_SIZE + 1),
                         !.n = IF st.n < ProcCountCap THEN st.n + 1 ELSE st.n,
                         !.out = IF DEBUG_ENABLED /\ st_settings.serialEnabled
                                 THEN <<"csv">> ELSE <<>>,
                         !.result = "ok"]
         ELSE [st EXCEPT !.flag = FALSE, !.out = <<>>, !.result = "failed"]
    ELSE [st EXCEPT !.out = <<>>, !.result = "idle"]

\* the sample step that clears the flag only after a successful read
SampleStepClearAfterRead(st, readOk, raw, st_settings) ==
    IF st.flag /\ st.sensorOk
    THEN IF readOk
         THEN [st EXCEPT !.flag = FALSE,
                         !.proc = Process(st.proc, raw),
                         !.hist = KeepLast(Append(st.hist, raw), MOVING_AVG_WINDOW_SIZE + 1),
                         !.n = IF st.n < ProcCountCap THEN st.n + 1 ELSE st.n,
                         !.out = IF DEBUG_ENABLED /\ st_settings.serialEnabled
                                 THEN <<"csv">> ELSE <<>>,
                         !.result = "ok"]
         ELSE [st EXCEPT !.out = <<>>, !.result = "failed"]
    ELSE [st EXCEPT !.out = <<>>, !.result = "idle"]

\* main.cpp lines 213-242, the sample step; readOk is whether accel.read
\* succeeds and raw the sample it delivers.  st holds flag (sampleFlag),
\* sensorOk, proc, the ghosts hist and n of the processor, out (the lines
\* printed) and result (what the step did)
SampleStep(st, readOk, raw, st_settings) ==
    IF st.flag /\ st.sensorOk
    THEN IF readOk
         THEN [st EXCEPT !.flag = FALSE,
                         !.proc = Process(st.proc, raw),
                         !.hist = KeepLast(Append(st.hist, raw), MOVING_AVG_WINDOW_SIZE + 1),
                         !.n = IF st.n < ProcCountCap THEN st.n + 1 ELSE st.n,
                         !.out = IF DEBUG_ENABLED /\ st_settings.serialEnabled
                                 THEN <<"csv">> ELSE <<>>,
                         !.result = "ok"]
         ELSE [st EXCEPT !.flag = FALSE, !.out = <<>>, !.result = "failed"]
    ELSE [st EXCEPT !.out = <<>>, !.result = "idle"]

\* main.cpp: onSampleTimer, the ISR of the sample timer
SampleTimerISR ==
    /\ ~sampleFlag
    /\ sampleFlag' = TRUE
    /\ op' = "env"
    /\ UNCHANGED <<sensorOk, currentSampleRateHz, expectingRateDigit, lastBLENotifyTime,
                   serialIn, serialOut, readResult, notified, notifiedAt, rateArg, hwVars>>
    /\ UNCHANGED <<bleService, lastButtonState, lastButtonTime, now, gaugeMax, pc,
                   buttonNav, pressedFrom, nLongPress, nPeakResets>>
    /\ UNCHANGED <<maVars, procVars, envVars, touchVars, uiVars>>

\* main.cpp: onSampleTimer preempting the loop between two of its steps; the
\* step the loop runs next is the one it was about to run
SampleTimerPreempt ==
    /\ ~sampleFlag
    /\ sampleFlag' = TRUE
    /\ UNCHANGED op
    /\ UNCHANGED <<sensorOk, currentSampleRateHz, expectingRateDigit, lastBLENotifyTime,
                   serialIn, serialOut, readResult, notified, notifiedAt, rateArg, hwVars>>
    /\ UNCHANGED <<bleService, lastButtonState, lastButtonTime, now, gaugeMax, pc,
                   buttonNav, pressedFrom, nLongPress, nPeakResets>>
    /\ UNCHANGED <<maVars, procVars, envVars, touchVars, uiVars>>

\* the sample step of loop(), the first step of an iteration (at most
\* MaxSpikes spikes fall into any run of N + 1 samples)
LoopSample(readOk, raw) ==
    LET st == [flag |-> sampleFlag, sensorOk |-> sensorOk, proc |-> processor,
               hist |-> rawHist, n |-> nProcessed, out |-> <<>>, result |-> "idle"]
        r == SampleStep(st, readOk, raw, settings)
    IN  /\ pc = "button"
        /\ raw = SpikeSample => SpikesIn(rawHist) < MaxSpikes
        /\ sampleFlag' = r.flag
        /\ sensorOk' = r.sensorOk
        /\ processor' = r.proc
        /\ rawHist' = r.hist
        /\ nProcessed' = r.n
        /\ serialOut' = r.out
        /\ readResult' = r.result
        /\ op' = "sample"
        /\ UNCHANGED <<currentSampleRateHz, expectingRateDigit, lastBLENotifyTime,
                       serialIn, notified, notifiedAt, rateArg, hwVars>>
        /\ UNCHANGED <<bleService, lastButtonState, lastButtonTime, now, gaugeMax, pc,
                       buttonNav, pressedFrom, nLongPress, nPeakResets>>
        /\ UNCHANGED <<maVars, envVars, touchVars, uiVars>>

\* the display step of loop(); it follows the peak step of the iteration
LoopDisplay ==
    LET st == [ui |-> uiMgr, last |-> lastDisplayTime, gauge |-> gaugeMax, drawn |-> drawn]
        r == DisplayStep(st, now, sensorOk, processor)
    IN  /\ pc = "button"
        /\ op = "peak"
        /\ uiMgr' = r.ui
        /\ lastDisplayTime' = r.last
        /\ gaugeMax' = r.gauge
        /\ drawn' = r.drawn
        /\ UNCHANGED bleTask
        /\ trueAt' = IF r.drawn.refreshed THEN [trueAt EXCEPT !.display = trueAt.now]
                      ELSE trueAt
        /\ uiRet' = IF r.drawn.refreshed THEN r.drawn.prepared ELSE uiRet
        /\ nTrans' = IF r.drawn.refreshed THEN 0 ELSE nTrans
        /\ owedTrans' = IF r.drawn.prepared /\ owedTrans > 0 THEN owedTrans - 1 ELSE owedTrans
        /\ op' = "display"
        /\ UNCHANGED <<settings, uiEv>>
        /\ UNCHANGED <<sampleFlag, sensorOk, currentSampleRateHz, expectingRateDigit,
                       lastBLENotifyTime, serialIn, serialOut, readResult, notified,
                       notifiedAt, rateArg, sampleTimerUs, accelRate, sampleSeen, unserved,
                       peakVars>>
        /\ UNCHANGED <<bleService, lastButtonState, lastButtonTime, now, pc,
                       buttonNav, pressedFrom, nLongPress, nPeakResets>>
        /\ UNCHANGED <<maVars, procVars, envVars, touchVars>>

\* main.cpp: onSampleTimer preempting the loop at any instruction, the firings
\* counted.  The loop keeps up with the timer: a firing arrives only once the
\* loop has read the flag the previous firing set
SampleTimerFire ==
    /\ ~sampleFlag \/ sampleSeen
    /\ sampleFlag' = TRUE
    /\ unserved' = IF unserved < MaxUnserved THEN unserved + 1 ELSE unserved
    /\ op' = "isr"
    /\ UNCHANGED <<sensorOk, currentSampleRateHz, expectingRateDigit, lastBLENotifyTime,
                   serialIn, serialOut, readResult, notified, notifiedAt, rateArg>>
    /\ UNCHANGED <<lastDisplayTime, drawn, sampleTimerUs, accelRate, sampleSeen, peakVars, trueAt, bleTask>>
    /\ UNCHANGED <<bleService, lastButtonState, lastButtonTime, now, gaugeMax, pc,
                   buttonNav, pressedFrom, nLongPress, nPeakResets>>
    /\ UNCHANGED <<maVars, procVars, envVars, touchVars, uiVars>>

\* main.cpp line 215: the loop evaluates sampleFlag && sensorOk
SampleTest ==
    /\ pc = "button"
    /\ ~sampleSeen
    /\ sampleSeen' = (sampleFlag /\ sensorOk)
    /\ op' = "sampleTest"
    /\ UNCHANGED <<sampleFlag, sensorOk, currentSampleRateHz, expectingRateDigit,
                   lastBLENotifyTime, serialIn, serialOut, readResult, notified,
                   notifiedAt, rateArg>>
    /\ UNCHANGED <<lastDisplayTime, drawn, sampleTimerUs, accelRate, unserved, peakVars, trueAt, bleTask>>
    /\ UNCHANGED <<bleService, lastButtonState, lastButtonTime, now, gaugeMax, pc,
                   buttonNav, pressedFrom, nLongPress, nPeakResets>>
    /\ UNCHANGED <<maVars, procVars, envVars, touchVars, uiVars>>

\* main.cpp lines 216-241: the body of the sample step, entered after the
\* test of line 215 succeeded: the flag is cleared and one sample is read
SampleRead(readOk, raw) ==
    LET st == [flag |-> sampleFlag, sensorOk |-> sensorOk, proc |-> processor,
               hist |-> rawHist, n |-> nProcessed, out |-> <<>>, result |-> "idle"]
        r == SampleStep(st, readOk, raw, settings)
    IN  /\ pc = "button"
        /\ sampleSeen
        /\ raw = SpikeSample => SpikesIn(rawHist) < MaxSpikes
        /\ sampleSeen' = FALSE
        /\ sampleFlag' = r.flag
        /\ processor' = r.proc
        /\ rawHist' = r.hist
        /\ nProcessed' = r.n
        /\ serialOut' = r.out
        /\ readResult' = r.result
        /\ unserved' = IF unserved > 0 THEN unserved - 1 ELSE unserved
        /\ op' = "sample"
        /\ UNCHANGED <<sensorOk, currentSampleRateHz, expectingRateDigit, lastBLENotifyTime,
                       serialIn, notified, notifiedAt, rateArg>>
        /\ UNCHANGED <<lastDisplayTime, drawn, sampleTimerUs, accelRate, peakVars, trueAt, bleTask>>
        /\ UNCHANGED <<bleService, lastButtonState, lastButtonTime, now, gaugeMax, pc,
                       buttonNav, pressedFrom, nLongPress, nPeakResets>>
        /\ UNCHANGED <<maVars, envVars, touchVars, uiVars>>

\* no peak notification went out
NoPeakNote == [sent |-> FALSE, peak |-> Zero, at |-> -1]

\* BleService::notifyPeak: whether the notification goes out
NotifyPeak(b) == b.deviceConnected_ /\ b.started

\* main.cpp line 327: the interval of the peak notification, in milliseconds
PEAK_NOTIFY_INTERVAL_MS == 500

\* the notification step that waits one millisecond less than the interval
NotifyStepEarly(st, t, enabled, sensor, dropped) ==
    IF enabled /\ IsConnected(st.ble) /\ sensor
    THEN LET bleInterval == 1000 \div GetNotificationRate(st.ble) IN
         IF U32Sub(t, st.last) >= bleInterval - 1
         THEN LET b == IF dropped THEN OnDisconnect(st.ble) ELSE st.ble
                  s == [st EXCEPT !.ble = b, !.last = t, !.sent = NotifyAccelData(b),
                                  !.peakSent = FALSE]
              IN  IF U32Sub(t, st.lastPeak) >= PEAK_NOTIFY_INTERVAL_MS
                  THEN [s EXCEPT !.lastPeak = t, !.peakSent = NotifyPeak(b)]
                  ELSE s
         ELSE [st EXCEPT !.sent = FALSE, !.peakSent = FALSE]
    ELSE [st EXCEPT !.sent = FALSE, !.peakSent = FALSE]

\* the notification step that sends the peak with every data notification
NotifyStepPeakEveryTime(st, t, enabled, sensor, dropped) ==
    IF enabled /\ IsConnected(st.ble) /\ sensor
    THEN LET bleInterval == 1000 \div GetNotificationRate(st.ble) IN
         IF U32Sub(t, st.last) >= bleInterval
         THEN LET b == IF dropped THEN OnDisconnect(st.ble) ELSE st.ble IN
              [st EXCEPT !.ble = b, !.last = t, !.sent = NotifyAccelData(b),
                         !.lastPeak = t, !.peakSent = NotifyPeak(b)]
         ELSE [st EXCEPT !.sent = FALSE, !.peakSent = FALSE]
    ELSE [st EXCEPT !.sent = FALSE, !.peakSent = FALSE]

\* main.cpp lines 313-332, the notification step at loop time t; enabled is
\* settings.bleEnabled, sensor is sensorOk, dropped is whether the peer
\* disconnects between the test of isConnected() and notifyAccelData.  st
\* holds ble (the BleService), last (lastBLENotifyTime), sent (whether a
\* data notification went out), lastPeak (lastPeakNotify) and peakSent
\* (whether a peak notification went out)
NotifyStep(st, t, enabled, sensor, dropped) ==
    IF enabled /\ IsConnected(st.ble) /\ sensor
    THEN LET bleInterval == 1000 \div GetNotificationRate(st.ble) IN
         IF U32Sub(t, st.last) >= bleInterval
         THEN LET b == IF dropped THEN OnDisconnect(st.ble) ELSE st.ble
                  s == [st EXCEPT !.ble = b, !.last = t, !.sent = NotifyAccelData(b),
                                  !.peakSent = FALSE]
              IN  IF U32Sub(t, st.lastPeak) >= PEAK_NOTIFY_INTERVAL_MS
                  THEN [s EXCEPT !.lastPeak = t, !.peakSent = NotifyPeak(b)]
                  ELSE s
         ELSE [st EXCEPT !.sent = FALSE, !.peakSent = FALSE]
    ELSE [st EXCEPT !.sent = FALSE, !.peakSent = FALSE]

\* the notification step of loop(); it follows the peak and display steps of the
\* iteration
LoopNotify(dropped) ==
    LET st == [ble |-> bleService, last |-> lastBLENotifyTime, sent |-> FALSE,
               lastPeak |-> lastPeakNotify, peakSent |-> FALSE]
        r == NotifyStep(st, now, settings.bleEnabled, sensorOk, dropped)
    IN  /\ pc = "button"
        /\ op \in {"peak", "display"}
        /\ bleService' = r.ble
        /\ lastBLENotifyTime' = r.last
        /\ notified' = r.sent
        /\ notifiedAt' = IF r.sent THEN now ELSE notifiedAt
        /\ lastPeakNotify' = r.lastPeak
        /\ peakNote' = [sent |-> r.peakSent,
                        peak |-> IF r.peakSent THEN GetPeakMagnitude(processor) ELSE Zero,
                        at |-> IF r.peakSent THEN now ELSE peakNote.at]
        /\ UNCHANGED bleTask
        /\ trueAt' = IF r.last # lastBLENotifyTime \/ r.sent
                      THEN [trueAt EXCEPT !.notify = trueAt.now] ELSE trueAt
        /\ op' = "notify"
        /\ UNCHANGED <<sampleFlag, sensorOk, currentSampleRateHz, expectingRateDigit,
                       serialIn, serialOut, readResult, rateArg>>
        /\ UNCHANGED <<lastDisplayTime, drawn, sampleTimerUs, accelRate, sampleSeen, unserved>>
        /\ UNCHANGED <<lastButtonState, lastButtonTime, now, gaugeMax, pc,
                       buttonNav, pressedFrom, nLongPress, nPeakResets>>
        /\ UNCHANGED <<maVars, procVars, envVars, touchVars, uiVars>>

\* main.cpp line 335: serialEvent() on the characters input waiting on the
\* port.  It is the last step of an iteration, so it runs where the next
\* iteration is about to begin
LoopSerial(input) ==
    LET st == [expecting |-> expectingRateDigit, rate |-> currentSampleRateHz,
               timer |-> sampleTimerUs, accel |-> accelRate, present |-> sensorOk,
               proc |-> processor, gauge |-> gaugeMax,
               hist |-> rawHist, n |-> nProcessed, arg |-> rateArg, out |-> <<>>]
        r == SerialEvent(st, input, settings)
    IN  /\ pc = "button"
        /\ expectingRateDigit' = r.expecting
        /\ currentSampleRateHz' = r.rate
        /\ processor' = r.proc
        /\ gaugeMax' = r.gauge
        /\ rawHist' = r.hist
        /\ nProcessed' = r.n
        /\ serialIn' = input
        /\ serialOut' = r.out
        /\ rateArg' = r.arg
        /\ sampleTimerUs' = r.timer
        /\ accelRate' = r.accel
        /\ op' = "serial"
        /\ UNCHANGED <<sampleFlag, sensorOk, lastBLENotifyTime, readResult, notified, notifiedAt>>
        /\ UNCHANGED <<lastDisplayTime, drawn, sampleSeen, unserved, peakVars, trueAt, bleTask>>
        /\ UNCHANGED <<bleService, lastButtonState, lastButtonTime, now, pc, buttonNav,
                       pressedFrom, nLongPress, nPeakResets>>
        /\ UNCHANGED <<maVars, envVars, touchVars, uiVars>>

\* a call setSampleRate(rateHz)
SetSampleRateCall(rateHz) ==
    LET r == SetSampleRate(currentSampleRateHz, rateHz) IN
        /\ currentSampleRateHz' = r.rate
        /\ uiRet' = r.ret
        /\ serialOut' = r.out
        /\ rateArg' = rateHz
        /\ sampleTimerUs' = SetSampleRateTimer(sampleTimerUs, currentSampleRateHz, rateHz)
        /\ accelRate' = SetSampleRateAccel(accelRate, currentSampleRateHz, rateHz, sensorOk)
        /\ op' = "setSampleRate"
        /\ UNCHANGED <<sampleFlag, sensorOk, expectingRateDigit, lastBLENotifyTime,
                       serialIn, readResult, notified, notifiedAt>>
        /\ UNCHANGED <<lastDisplayTime, drawn, sampleSeen, unserved, peakVars, trueAt, bleTask>>
        /\ UNCHANGED <<bleService, lastButtonState, lastButtonTime, now, gaugeMax, pc,
                       buttonNav, pressedFrom, nLongPress, nPeakResets>>
        /\ UNCHANGED <<uiMgr, settings, uiEv, nTrans, owedTrans>>
        /\ UNCHANGED <<maVars, procVars, envVars, touchVars>>

\* BleService::onConnect, called by the BLE stack when a peer connects
BleOnConnect ==
    /\ bleService.started
    /\ ~bleService.deviceConnected_
    /\ bleService' = OnConnect(bleService)
    /\ op' = "onConnect"
    /\ UNCHANGED <<lastButtonState, lastButtonTime, now, gaugeMax, pc, buttonNav,
                   pressedFrom, nLongPress, nPeakResets, ioVars>>
    /\ UNCHANGED <<maVars, procVars, envVars, touchVars, uiVars>>

\* BleService::onDisconnect, called by the BLE stack when the peer leaves
BleOnDisconnect ==
    /\ bleService.deviceConnected_
    /\ bleService' = OnDisconnect(bleService)
    /\ op' = "onDisconnect"
    /\ UNCHANGED <<lastButtonState, lastButtonTime, now, gaugeMax, pc, buttonNav,
                   pressedFrom, nLongPress, nPeakResets, ioVars>>
    /\ UNCHANGED <<maVars, procVars, envVars, touchVars, uiVars>>

\* BleService::onWrite on the control characteristic: the connected peer wrote value
BleOnWriteControl(value) ==
    LET st == [proc |-> processor, gauge |-> gaugeMax, hist |-> rawHist, n |-> nProcessed]
        r == IF Len(value) > 0 THEN CommandCallback(st, value[1]) ELSE st
    IN  /\ bleService.deviceConnected_
        /\ processor' = r.proc
        /\ gaugeMax' = r.gauge
        /\ rawHist' = r.hist
        /\ nProcessed' = r.n
        /\ op' = "onWriteControl"
        /\ UNCHANGED <<bleService, lastButtonState, lastButtonTime, now, pc, buttonNav,
                       pressedFrom, nLongPress, nPeakResets, ioVars>>
        /\ UNCHANGED <<maVars, envVars, touchVars, uiVars>>

\* BleService::onWrite on the configuration characteristic
BleOnWriteConfig(value) ==
    /\ bleService.deviceConnected_
    /\ bleService' = IF Len(value) > 0 THEN SetNotificationRate(bleService, value[1])
                     ELSE bleService
    /\ rateArg' = IF Len(value) > 0 THEN value[1] ELSE rateArg
    /\ op' = "onWriteConfig"
    /\ UNCHANGED <<sampleFlag, sensorOk, currentSampleRateHz, expectingRateDigit,
                   lastBLENotifyTime, serialIn, serialOut, readResult, notified, notifiedAt,
                   hwVars>>
    /\ UNCHANGED <<lastButtonState, lastButtonTime, now, gaugeMax, pc, buttonNav,
                   pressedFrom, nLongPress, nPeakResets>>
    /\ UNCHANGED <<maVars, procVars, envVars, touchVars, uiVars>>

\* a call bleService.setNotificationRate(rateHz)
BleSetNotificationRate(rateHz) ==
    /\ bleService' = SetNotificationRate(bleService, rateHz)
    /\ rateArg' = rateHz
    /\ op' = "setNotificationRate"
    /\ UNCHANGED <<sampleFlag, sensorOk, currentSampleRateHz, expectingRateDigit,
                   lastBLENotifyTime, serialIn, serialOut, readResult, notified, notifiedAt,
                   hwVars>>
    /\ UNCHANGED <<lastButtonState, lastButtonTime, now, gaugeMax, pc, buttonNav,
                   pressedFrom, nLongPress, nPeakResets>>
    /\ UNCHANGED <<maVars, procVars, envVars, touchVars, uiVars>>

\* a call bleService.setEnabled(enabled)
BleSetEnabledCall(enabled) ==
    /\ bleService' = BleSetEnabled(bleService, enabled)
    /\ op' = "setEnabled"
    /\ UNCHANGED <<lastButtonState, lastButtonTime, now, gaugeMax, pc, buttonNav,
                   pressedFrom, nLongPress, nPeakResets, ioVars>>
    /\ UNCHANGED <<maVars, procVars, envVars, touchVars, uiVars>>

(***************************************************************************)
(* BleService::stop() against onDisconnect, statement by statement         *)
(* stop() runs in the loop's task (setEnabled(false)), onDisconnect in the *)
(* BLE stack's task.  ble_service.cpp takes no lock, and the two share     *)
(* deviceConnected_ and pAdvertising_, so a step of one may fall between   *)
(* any two statements of the other.                                        *)
(*                                                                         *)
(* bleTask has the fields                                                  *)
(*   stopAt    the statement of stop() the loop executes next: 0 when it   *)
(*             is not inside stop(), 1 deinit, 2 deviceConnected_ = false, *)
(*             3 bleEnabled_ = false, 4 the reset of the pointers          *)
(*   discAt    1 when the stack is inside onDisconnect, about to call      *)
(*             pAdvertising_->start(); 0 otherwise                         *)
(*   peer      the stack holds a connection whose end it has not reported  *)
(*   freed     deinit(true) has freed the objects the pointers name and    *)
(*             the pointers still name them                                *)
(*   deref     what the last pAdvertising_->start() of onDisconnect went   *)
(*             through: "live", "freed" or "null"; "none" before the first *)
(*   halted    a fault has stopped the firmware                            *)
(*   stopDone, discDone   ghost: a stop(), an onDisconnect has returned    *)
(*             since the last onConnect                                    *)
(***************************************************************************)
BleTaskIdle ==
    [stopAt |-> 0, discAt |-> 0, peer |-> FALSE, freed |-> FALSE, deref |-> "none",
     halted |-> FALSE, stopDone |-> FALSE, discDone |-> FALSE]

\* what a step of stop() or of a stack callback leaves alone
BleTaskFrame ==
    /\ UNCHANGED <<lastButtonState, lastButtonTime, now, gaugeMax, pc, buttonNav,
                   pressedFrom, nLongPress, nPeakResets>>
    /\ UNCHANGED <<sampleFlag, sensorOk, currentSampleRateHz, expectingRateDigit,
                   lastBLENotifyTime, serialIn, serialOut, readResult, notified, notifiedAt,
                   rateArg, hwRest, trueAt>>
    /\ UNCHANGED <<maVars, procVars, envVars, touchVars, uiVars>>

\* the stack reports a new connection: onConnect
StackConnect ==
    /\ ~bleTask.halted
    /\ bleService.started /\ ~bleTask.freed
    /\ ~bleTask.peer /\ bleTask.discAt = 0
    /\ bleService' = OnConnect(bleService)
    /\ bleTask' = [bleTask EXCEPT !.peer = TRUE, !.stopDone = FALSE, !.discDone = FALSE]
    /\ op' = "onConnect"
    /\ BleTaskFrame

\* setEnabled(false) with the service enabled enters stop():
\* if (pAdvertising_) pAdvertising_->stop();
StopAdvertising ==
    /\ ~bleTask.halted
    /\ bleTask.stopAt = 0
    /\ BleSetEnabled(bleService, FALSE) # bleService
    /\ bleTask' = [bleTask EXCEPT !.stopAt = 1]
    /\ op' = "stop"
    /\ UNCHANGED bleService
    /\ BleTaskFrame

\* stop(): NimBLEDevice::deinit(true) ends the stack, which reports nothing
\* from then on, and frees the server, the characteristics and the advertising
\* object
StopDeinit ==
    /\ ~bleTask.halted
    /\ bleTask.stopAt = 1
    /\ bleTask' = [bleTask EXCEPT !.stopAt = 2, !.freed = bleService.started, !.peer = FALSE]
    /\ op' = "stop"
    /\ UNCHANGED bleService
    /\ BleTaskFrame

\* stop(): deviceConnected_ = false;
StopClearConnected ==
    /\ ~bleTask.halted
    /\ bleTask.stopAt = 2
    /\ bleService' = [bleService EXCEPT !.deviceConnected_ = FALSE]
    /\ bleTask' = [bleTask EXCEPT !.stopAt = 3]
    /\ op' = "stop"
    /\ BleTaskFrame

\* stop(): bleEnabled_ = false;
StopClearEnabled ==
    /\ ~bleTask.halted
    /\ bleTask.stopAt = 3
    /\ bleService' = [bleService EXCEPT !.bleEnabled_ = FALSE]
    /\ bleTask' = [bleTask EXCEPT !.stopAt = 4]
    /\ op' = "stop"
    /\ BleTaskFrame

\* stop(): pServer_ = nullptr; ... pAdvertising_ = nullptr; and the return.
\* The service is now what BleStop makes of the one stop() was entered with.
StopResetPointers ==
    /\ ~bleTask.halted
    /\ bleTask.stopAt = 4
    /\ bleService' = [bleService EXCEPT !.started = FALSE, !.runs = CountRun(bleService.runs)]
    /\ bleTask' = [bleTask EXCEPT !.stopAt = 0, !.freed = FALSE, !.stopDone = TRUE]
    /\ op' = "stop"
    /\ BleTaskFrame

\* the stack reports the end of the connection and enters onDisconnect:
\* deviceConnected_ = false;
DisconnectClearConnected ==
    /\ ~bleTask.halted
    /\ bleTask.peer /\ bleTask.discAt = 0
    /\ bleService' = OnDisconnect(bleService)
    /\ bleTask' = [bleTask EXCEPT !.peer = FALSE, !.discAt = 1]
    /\ op' = "onDisconnect"
    /\ BleTaskFrame

\* what pAdvertising_ names when onDisconnect calls through it
AdvertisingTarget(b, t) ==
    IF ~b.started THEN "null" ELSE IF t.freed THEN "freed" ELSE "live"

\* onDisconnect: pAdvertising_->start(); and the return.  The call is made
\* without a test of the pointer.  Through a null pointer it faults; through
\* a pointer to a freed object it faults or returns.
DisconnectRestartAdvertising(fault) ==
    LET target == AdvertisingTarget(bleService, bleTask)
        halts == target = "null" \/ (target = "freed" /\ fault)
    IN  /\ ~bleTask.halted
        /\ bleTask.discAt = 1
        /\ target = "live" => ~fault
        /\ bleTask' = [bleTask EXCEPT !.deref = target, !.halted = halts, !.discAt = 0,
                                      !.discDone = ~halts]
        /\ op' = "onDisconnect"
        /\ UNCHANGED bleService
        /\ BleTaskFrame

(***************************************************************************)
(* Initial states and specifications                                       *)
(***************************************************************************)
\* the objects as constructed and after setup(): found is whether the touch
\* controller answered in TouchManager::begin()
InitSensor(found, sensor) ==
    /\ ma = MovingAverageNew(MAWindow)
    /\ maHist = <<>>
    /\ processor = SignalProcessorNew
    /\ rawHist = <<>>
    /\ nProcessed = 0
    /\ millis = 0
    /\ uptime = 0
    /\ panel = [fingerNum |-> 0, x |-> 0, y |-> 0]
    /\ buttonPin = TRUE
    /\ touchInterrupt = FALSE
    /\ touchMgr = TouchBegin(TouchManagerNew, found)
    /\ lastPollTime = 0
    /\ evRet = NoEvent
    /\ lastDuration = -1
    /\ unreadGesture = FALSE
    /\ uiMgr = UIManagerNew
    /\ settings = SettingsNew
    /\ uiEv = NoEvent
    /\ uiRet = FALSE
    /\ nTrans = 1
    /\ owedTrans = 1
    /\ bleService = BleBegin(BleServiceNew)
    /\ lastButtonState = TRUE
    /\ lastButtonTime = 0
    /\ now = 0
    /\ gaugeMax = DEFAULT_GAUGE_MAX
    /\ pc = "button"
    /\ buttonNav = 0
    /\ pressedFrom = "NONE"
    /\ nLongPress = 0
    /\ nPeakResets = 0
    /\ sampleFlag = FALSE
    /\ sensorOk = sensor
    /\ currentSampleRateHz = ADXL_DEFAULT_SAMPLE_RATE_HZ
    /\ expectingRateDigit = FALSE
    /\ lastBLENotifyTime = 0
    /\ serialIn = <<>>
    /\ serialOut = <<>>
    /\ readResult = "idle"
    /\ notified = FALSE
    /\ notifiedAt = -1
    /\ rateArg = -1
    /\ lastDisplayTime = 0
    /\ drawn = NotDrawn
    /\ sampleTimerUs = 1000000 \div ADXL_DEFAULT_SAMPLE_RATE_HZ
    /\ accelRate = IF sensor THEN 100 ELSE 0
    /\ sampleSeen = FALSE
    /\ unserved = 0
    /\ lastPeakNotify = 0
    /\ peakNote = NoPeakNote
    /\ trueAt = [now |-> 0, button |-> 0, display |-> 0, notify |-> 0]
    /\ bleTask = BleTaskIdle
    /\ op = "new"

\* setup() with the accelerometer found
InitWith(found) == InitSensor(found, TRUE)

Init == \E found \in BOOLEAN : InitWith(found)

\* --- one MovingAverage
NextMA ==
    \/ \E v \in MASamples : MAAddSample(v)
    \/ MAReset

SpecMA == Init /\ [][NextMA]_vars

\* --- the SignalProcessor
NextProc ==
    \/ \E raw \in ProcSamples : ProcProcess(raw)
    \/ ProcResetPeak
    \/ ProcReset

SpecProc == Init /\ [][NextProc]_vars

\* --- the TouchManager under any sequence of update() and getEvent() calls
\* instants the clock visits: contacts of 10, 150, 400, 410, 560, 1000 ms ... arise
TouchInstants == {0, 150, 160, 560, 1160}
\* two contact points
TouchPoints == {<<120, 80>>, <<10, 10>>}

NextTouch ==
    \/ \E t \in TouchInstants : Tick(t)
    \/ \E pt \in TouchPoints : FingerDown(pt)
    \/ \E pt \in TouchPoints : FingerMove(pt)
    \/ FingerUp
    \/ TouchISR
    \/ \E pollOk, readOk \in BOOLEAN : TMUpdate(pollOk, readOk)
    \/ TMGetEvent

SpecTouch == Init /\ [][NextTouch]_vars

\* --- gesture classification: a contact that began at start and was held
\* for held ms has just been lifted; update() then classifies it
GestureStarts == {0, 1000, U32 - 100}

InitGesture ==
    \E start \in GestureStarts, held \in 0..MaxDuration, pt \in TouchPoints :
        /\ ma = MovingAverageNew(MAWindow)
        /\ maHist = <<>>
        /\ processor = SignalProcessorNew
        /\ rawHist = <<>>
        /\ nProcessed = 0
        /\ millis = (start + held) % U32
        /\ uptime = start + held
        /\ panel = [fingerNum |-> 0, x |-> pt[1], y |-> pt[2]]
        /\ buttonPin = TRUE
        /\ touchInterrupt = FALSE
        /\ touchMgr = [TouchBegin(TouchManagerNew, TRUE) EXCEPT
                          !.touching_ = TRUE, !.lastTouching_ = TRUE,
                          !.touchX_ = pt[1], !.touchY_ = pt[2], !.touchStartTime_ = start]
        /\ lastPollTime = start
        /\ evRet = NoEvent
        /\ lastDuration = -1
        /\ unreadGesture = FALSE
        /\ uiMgr = UIManagerNew
        /\ settings = SettingsNew
        /\ uiEv = NoEvent
        /\ uiRet = FALSE
        /\ nTrans = 1
        /\ owedTrans = 1
        /\ bleService = BleBegin(BleServiceNew)
        /\ lastButtonState = TRUE
        /\ lastButtonTime = 0
        /\ now = 0
        /\ gaugeMax = DEFAULT_GAUGE_MAX
        /\ pc = "button"
        /\ buttonNav = 0
        /\ pressedFrom = "NONE"
        /\ nLongPress = 0
        /\ nPeakResets = 0
        /\ sampleFlag = FALSE
        /\ sensorOk = TRUE
        /\ currentSampleRateHz = ADXL_DEFAULT_SAMPLE_RATE_HZ
        /\ expectingRateDigit = FALSE
        /\ lastBLENotifyTime = 0
        /\ serialIn = <<>>
        /\ serialOut = <<>>
        /\ readResult = "idle"
        /\ notified = FALSE
        /\ notifiedAt = -1
        /\ rateArg = -1
        /\ lastDisplayTime = 0
        /\ drawn = NotDrawn
        /\ sampleTimerUs = 1000000 \div ADXL_DEFAULT_SAMPLE_RATE_HZ
        /\ accelRate = 100
        /\ sampleSeen = FALSE
        /\ unserved = 0
        /\ lastPeakNotify = 0
        /\ peakNote = NoPeakNote
        /\ trueAt = [now |-> 0, button |-> 0, display |-> 0, notify |-> 0]
        /\ bleTask = BleTaskIdle
        /\ op = "new"

NextGesture ==
    \/ \E pollOk, readOk \in BOOLEAN : TMUpdate(pollOk, readOk)
    \/ TMGetEvent

SpecGesture == InitGesture /\ [][NextGesture]_vars

\* --- the UIManager under any sequence of calls
\* tap points: inside each region, on region corners, just outside, and in empty space
UIPoints ==
    {<<120, 80>>, <<120, 130>>, <<120, 210>>, <<10, 10>>, <<120, 170>>,
     <<70, 195>>, <<170, 230>>, <<69, 195>>, <<171, 230>>, <<30, 60>>, <<210, 150>>}

UIEvents ==
    {[gesture |-> g, x |-> pt[1], y |-> pt[2], timestamp |-> 0] :
        g \in {"NONE", "TAP", "LONG_PRESS"}, pt \in UIPoints}

NextUI ==
    \/ \E event \in UIEvents : UIHandleTouch(event)
    \/ \E screen \in {"MAIN_GAUGE", "SETTINGS"} : UISetScreen(screen)
    \/ UIScreenChanged
    \/ UIPeakResetRequested

SpecUI == Init /\ [][NextUI]_vars

\* --- the input-handling steps of loop() with the button, the panel and the clock
InputInstants == {0, 250, 500, 750}
InputPoints == {<<120, 80>>, <<10, 10>>}

NextInput ==
    \/ \E t \in InputInstants : Tick(t)
    \/ \E pt \in InputPoints : FingerDown(pt)
    \/ FingerUp
    \/ TouchISR
    \/ ButtonChange
    \/ LoopButton
    \/ \E pollOk, readOk \in BOOLEAN : LoopTouch(pollOk, readOk)
    \/ LoopPeakReset

SpecInput == Init /\ [][NextInput]_vars

\* --- the same steps on a coarse clock: every contact is a long press
LongInstants == {0, 500, 1000}
LongPoints == {<<10, 10>>}

NextLong ==
    \/ \E t \in LongInstants : Tick(t)
    \/ \E pt \in LongPoints : FingerDown(pt)
    \/ FingerUp
    \/ TouchISR
    \/ ButtonChange
    \/ LoopButton
    \/ \E pollOk, readOk \in BOOLEAN : LoopTouch(pollOk, readOk)
    \/ LoopPeakReset

SpecLong == Init /\ [][NextLong]_vars

\* --- the input steps together with the serial and the BLE commands
SettingsInstants == {0, 250, 500}
SettingsPoints == {<<120, 80>>, <<120, 130>>}
SettingsSerial == {<<"c">>, <<"s", "9">>}
SettingsBytes == {<<1>>, <<20>>}

NextSettings ==
    \/ \E t \in SettingsInstants : Tick(t)
    \/ \E pt \in SettingsPoints : FingerDown(pt)
    \/ FingerUp
    \/ ButtonChange
    \/ LoopButton
    \/ LoopTouch(TRUE, TRUE)
    \/ LoopPeakReset
    \/ \E input \in SettingsSerial : LoopSerial(input)
    \/ BleOnConnect
    \/ BleOnDisconnect
    \/ \E value \in SettingsBytes : BleOnWriteControl(value)
    \/ \E value \in SettingsBytes : BleOnWriteConfig(value)

SpecSettings == InitWith(TRUE) /\ [][NextSettings]_vars

\* --- the button alone, on a clock that visits an instant exactly 200 ms
\* after another
ButtonInstants == {0, 300, 450, 500, 550}

NextButton ==
    \/ \E t \in ButtonInstants : Tick(t)
    \/ ButtonChange
    \/ LoopButton
    \/ \E pollOk, readOk \in BOOLEAN : LoopTouch(pollOk, readOk)
    \/ LoopPeakReset

SpecButton == Init /\ [][NextButton]_vars

\* --- the BleService under any sequence of calls and callbacks
\* every value of a uint8_t
RateBytes == 0..255

NextBle ==
    \/ BleOnConnect
    \/ BleOnDisconnect
    \/ \E rateHz \in RateBytes : BleOnWriteConfig(<<rateHz>>)
    \/ BleOnWriteConfig(<<>>)
    \/ \E rateHz \in RateBytes : BleSetNotificationRate(rateHz)
    \/ \E enabled \in BOOLEAN : BleSetEnabledCall(enabled)

SpecBle == Init /\ [][NextBle]_vars

\* --- the command intake: serial commands and calls of setSampleRate
SerialChars == {"s", "0", "1", "4", "9", "r", "?"}
SerialInputs ==
    {<<>>} \cup {<<c>> : c \in SerialChars} \cup {<<c, d>> : c, d \in SerialChars}
\* rates below, inside and above the valid range 100..800
SampleRates == {0, 50, 100, 200, 300, 400, 800, 1600}

NextSerial ==
    \/ \E input \in SerialInputs : LoopSerial(input)
    \/ \E rateHz \in SampleRates : SetSampleRateCall(rateHz)

SpecSerial == Init /\ [][NextSerial]_vars

\* --- sample ingestion: the timer, the sample step, reads that fail
InitSample == \E sensor \in BOOLEAN : InitSensor(TRUE, sensor)

SampleInputs == {RestSample, SpikeSample}

NextSample ==
    \/ SampleTimerISR
    \/ \E readOk \in BOOLEAN, raw \in SampleInputs : LoopSample(readOk, raw)

SpecSample == InitSample /\ [][NextSample]_vars

\* --- the wireless switch: taps on the BLE toggle, a peer that comes and goes
WirelessInstants == {0, 250, 500, 750}
WirelessPoints == {<<120, 80>>}

NextWireless ==
    \/ \E t \in WirelessInstants : Tick(t)
    \/ \E pt \in WirelessPoints : FingerDown(pt)
    \/ FingerUp
    \/ TouchISR
    \/ LoopButton
    \/ \E readOk \in BOOLEAN : LoopTouch(TRUE, readOk)
    \/ LoopPeakReset
    \/ BleOnConnect
    \/ BleOnDisconnect

SpecWireless == InitWith(TRUE) /\ [][NextWireless]_vars

\* --- wireless notifications: the clock visits instants 33 and 32 ms apart
NotifyInstants == {0, 33, 65, 150, 250}
NotifyPoints == {<<120, 80>>}
NotifyBytes == {<<30>>}

NextNotify ==
    \/ \E t \in NotifyInstants : Tick(t)
    \/ \E pt \in NotifyPoints : FingerDown(pt)
    \/ FingerUp
    \/ TouchISR
    \/ LoopButton
    \/ LoopTouch(TRUE, TRUE)
    \/ LoopPeakReset
    \/ \E dropped \in BOOLEAN : LoopNotify(dropped)
    \/ BleOnConnect
    \/ BleOnDisconnect
    \/ \E value \in NotifyBytes : BleOnWriteConfig(value)

SpecNotify == InitWith(TRUE) /\ [][NextNotify]_vars

\* --- the whole loop after accel.begin() failed in setup()
DegradedInstants == {0, 250, 500, 750}

InitDegraded == InitSensor(TRUE, FALSE)

NextDegraded ==
    \/ \E t \in DegradedInstants : Tick(t)
    \/ ButtonChange
    \/ SampleTimerISR
    \/ \E readOk \in BOOLEAN, raw \in SampleInputs : LoopSample(readOk, raw)
    \/ LoopButton
    \/ LoopTouch(TRUE, TRUE)
    \/ LoopPeakReset
    \/ LoopDisplay
    \/ \E dropped \in BOOLEAN : LoopNotify(dropped)
    \/ BleOnConnect
    \/ BleOnDisconnect

SpecDegraded == InitDegraded /\ [][NextDegraded]_vars

\* --- the loop with samples arriving and commands from the serial port and the peer
CommandInstants == {0, 100}
CommandSerial == {<<"r", "r">>, <<"c">>}
CommandBytes == {<<BLE_CMD_RESET_PEAK>>, <<BLE_CMD_RESET_FILTERS>>}

NextCommands ==
    \/ \E t \in CommandInstants : Tick(t)
    \/ SampleTimerISR
    \/ \E raw \in SampleInputs : nProcessed < MaxFed /\ LoopSample(TRUE, raw)
    \/ LoopButton
    \/ LoopTouch(TRUE, TRUE)
    \/ LoopPeakReset
    \/ LoopDisplay
    \/ \E input \in CommandSerial : LoopSerial(input)
    \/ BleOnConnect
    \/ \E value \in CommandBytes : BleOnWriteControl(value)

SpecCommands == InitWith(TRUE) /\ [][NextCommands]_vars

\* --- screen transitions by the button and by taps, and the display step
RedrawInstants == {0, 100, 250, 350}
RedrawPoints == {<<120, 170>>}

NextRedraw ==
    \/ \E t \in RedrawInstants : Tick(t)
    \/ \E pt \in RedrawPoints : FingerDown(pt)
    \/ FingerUp
    \/ TouchISR
    \/ ButtonChange
    \/ LoopButton
    \/ LoopTouch(TRUE, TRUE)
    \/ LoopPeakReset
    \/ LoopDisplay

SpecRedraw == InitWith(TRUE) /\ [][NextRedraw]_vars

\* --- the sample timer ISR against the test and the clear of the sample step
NextTrigger ==
    \/ SampleTimerFire
    \/ SampleTest
    \/ \E readOk \in BOOLEAN, raw \in SampleInputs : SampleRead(readOk, raw)

SpecTrigger == InitWith(TRUE) /\ [][NextTrigger]_vars

(***************************************************************************)
(* Claims                                                                  *)
(***************************************************************************)
RECURSIVE SeqSum(_)
SeqSum(s) == IF s = <<>> THEN 0 ELSE Head(s) + SeqSum(Tail(s))

\* arithmetic mean of a non-empty sequence of integers
Mean(s) == Rat(SeqSum(s), Len(s))

RECURSIVE SetSum(_, _)
SetSum(f, S) == IF S = {} THEN 0
                ELSE LET i == CHOOSE j \in S : TRUE IN f[i] + SetSum(f, S \ {i})

Min(a, b) == IF a < b THEN a ELSE b

\* C1: after k >= 1 addSample calls since construction or the last reset,
\* getAverage() is the arithmetic mean of all k samples when k <= N and of
\* exactly the most recent N samples when k > N (maHist holds the samples
\* added so far, cut to the most recent N).
C1_AverageIsMean ==
    maHist # <<>> => GetAverage(ma) = Mean(maHist)

\* the window has wrapped: more than N samples were added, the oldest were dropped
C1_Witness ==
    /\ Len(maHist) = MAWindow
    /\ ma.count = MAWindow
    /\ ma.index = 1
    /\ op = "addSample"
    /\ maHist[1] # maHist[MAWindow]
    /\ GetAverage(ma) # Zero

\* the buffer slots holding the count most recent samples
ValidSlots(f, n) == {(f.index + n - i) % n : i \in 1..f.count}

\* C2: in every state reachable by interleaving addSample and reset, sum_ is
\* the sum of the valid buffer entries, count_ <= N, index_ < N, and
\* getAverage() is sum_ / min(count, N), or 0 when count is 0.
C2_FilterInvariant ==
    /\ ma.count \in 0..MAWindow
    /\ ma.index \in 0..(MAWindow - 1)
    /\ ma.sum = SetSum(ma.buffer, ValidSlots(ma, MAWindow))
    /\ GetAverage(ma) = IF ma.count = 0 THEN Zero
                        ELSE Rat(ma.sum, Min(ma.count, MAWindow))

\* a full, wrapped window with a non-zero sum
C2_Witness ==
    /\ ma.count = MAWindow
    /\ ma.index = 2
    /\ ma.sum # 0
    /\ op = "addSample"

\* C3: on a fresh filter and after reset(), getAverage() is exactly 0 and
\* getSampleCount() is 0 until the next addSample; getAverage() never
\* divides by a zero count.
C3_ResetGivesZero ==
    /\ op \in {"new", "reset"} => GetAverage(ma) = Zero /\ GetSampleCount(ma) = 0
    /\ GetAverage(ma) # NaN

\* reset() has just run and left the filter empty
C3_Witness ==
    /\ op = "reset"
    /\ ma.count = 0
    /\ ma.sum = 0
    /\ ma.index = 0
    /\ ma.buffer = [i \in 0..(MAWindow - 1) |-> 0]

\* C4: a process() call never lowers the peak; right after resetPeak() the
\* peak is exactly 0; a step that lowers the peak is a resetPeak() or a reset().
C4_PeakMonotone ==
    [][ /\ op' = "process" =>
              ~FGreater(GetPeakMagnitude(processor), GetPeakMagnitude(processor'))
        /\ op' = "resetPeak" => GetPeakMagnitude(processor') = Zero
        /\ FGreater(GetPeakMagnitude(processor), GetPeakMagnitude(processor')) =>
              op' \in {"resetPeak", "reset"} ]_vars

\* process() has just run and the peak is held above the current filtered magnitude
C4_Witness ==
    /\ op = "process"
    /\ FGreater(GetPeakMagnitude(processor), GetFilteredMagnitude(processor))
    /\ IsFull(processor.filterMag_, MOVING_AVG_WINDOW_SIZE)

\* the end-to-end scenario: ten samples (0,0,1), then the spike (0,0,50)
SteadyRun == [i \in 1..MOVING_AVG_WINDOW_SIZE |-> RestSample]
SpikeRun == Append(SteadyRun, SpikeSample)

XsOf(h) == [i \in 1..Len(h) |-> h[i].x]
YsOf(h) == [i \in 1..Len(h) |-> h[i].y]
ZsOf(h) == [i \in 1..Len(h) |-> h[i].z]
MagsOf(h) == [i \in 1..Len(h) |-> Magnitude(h[i])]

\* C5: process() averages each axis and, separately, the magnitude of the raw
\* samples over the last N = 10 samples, and the peak follows that filtered
\* magnitude: after ten samples (0,0,1) the filtered axes are (0,0,1) and the
\* peak is 1; after the following spike (0,0,50) the peak is (9*1+50)/10, not 50.
C5_SpikeScenario ==
    /\ rawHist # <<>> =>
          LET w == KeepLast(rawHist, MOVING_AVG_WINDOW_SIZE) IN
          /\ GetFilteredMagnitude(processor) = Mean(MagsOf(w))
          /\ GetLastFiltered(processor) =
                [x |-> Mean(XsOf(w)), y |-> Mean(YsOf(w)), z |-> Mean(ZsOf(w))]
    /\ (op = "process" /\ nProcessed = MOVING_AVG_WINDOW_SIZE /\ rawHist = SteadyRun) =>
          /\ GetLastFiltered(processor) = [x |-> Zero, y |-> Zero, z |-> FromInt(1)]
          /\ GetFilteredMagnitude(processor) = FromInt(1)
          /\ GetPeakMagnitude(processor) = FromInt(1)
    /\ (op = "process" /\ nProcessed = MOVING_AVG_WINDOW_SIZE + 1 /\ rawHist = SpikeRun) =>
          /\ GetPeakMagnitude(processor) = Rat(9 * 1 + 50, 10)
          /\ GetPeakMagnitude(processor) # FromInt(50)

\* the spike has just been processed after the ten steady samples
C5_Witness ==
    /\ op = "process"
    /\ nProcessed = MOVING_AVG_WINDOW_SIZE + 1
    /\ rawHist = SpikeRun
    /\ GetPeakMagnitude(processor) = <<59, 10>>

\* the classification the gesture rules give a contact of d ms
ExpectedGesture(d) ==
    IF d < 50 THEN "NONE"
    ELSE IF d < 300 THEN "TAP"
    ELSE IF d < 500 THEN "NONE"
    ELSE "LONG_PRESS"

\* C6: the gesture classified on release is a function of the duration alone:
\* below 50 ms none, 50..299 ms Tap, 300..499 ms none, 500 ms and more
\* LongPress (10, 150, 400, 600 ms give none, Tap, none, LongPress); a
\* gesture becomes pending exactly when a Tap or LongPress is classified.
C6_Classification ==
    (op = "update" /\ lastDuration # -1) =>
        /\ lastDuration = U32Sub(millis, touchMgr.touchStartTime_)
        /\ touchMgr.currentEvent_.gesture = ExpectedGesture(lastDuration)
        /\ touchMgr.eventPending_ = (ExpectedGesture(lastDuration) # "NONE")
        /\ lastDuration = 10 => touchMgr.currentEvent_.gesture = "NONE"
        /\ lastDuration = 150 => touchMgr.currentEvent_.gesture = "TAP"
        /\ lastDuration = 400 => touchMgr.currentEvent_.gesture = "NONE"
        /\ lastDuration = 600 => touchMgr.currentEvent_.gesture = "LONG_PRESS"

\* a contact held for exactly 500 ms across the wrap of the clock was classified
C6_Witness ==
    /\ op = "update"
    /\ lastDuration = 500
    /\ millis < touchMgr.touchStartTime_
    /\ touchMgr.currentEvent_.gesture = "LONG_PRESS"
    /\ touchMgr.eventPending_

\* C7: getEvent() is read-and-clear: after it nothing is pending, it returns a
\* Tap or LongPress only when one was pending, which was classified since the
\* previous getEvent(), and returns exactly that event; two getEvent() calls
\* with no update() between them never both return a gesture.
C7_ReadAndClear ==
    [][ op' = "getEvent" =>
          /\ ~touchMgr'.eventPending_
          /\ evRet'.gesture # "NONE" =>
                /\ touchMgr.eventPending_
                /\ unreadGesture
                /\ evRet' = touchMgr.currentEvent_
          /\ op = "getEvent" => evRet'.gesture = "NONE" ]_vars

\* a Tap has just been delivered by getEvent()
C7_Witness ==
    /\ op = "getEvent"
    /\ evRet.gesture = "TAP"
    /\ evRet.timestamp > 0
    /\ ~touchMgr.eventPending_
    /\ touchMgr.currentEvent_.gesture = "TAP"

\* C8: a pending (not yet returned) gesture is never overwritten or altered:
\* while a gesture is pending, no step changes the stored event, and the
\* gesture stays pending until getEvent() returns it.
C8_PendingNeverOverwritten ==
    [][ touchMgr.eventPending_ =>
          /\ touchMgr'.currentEvent_ = touchMgr.currentEvent_
          /\ touchMgr'.eventPending_ \/ op' = "getEvent" ]_vars

\* C9: when the touch controller was not detected at begin(), update()
\* changes nothing of the touch manager, getEvent() returns gesture NONE, no
\* touch ever reaches the UI or the settings, and every honoured press of the
\* physical button switches the screen, from either screen to the other.
C9_NoTouchTolerated ==
    [][ ~touchMgr.initialized_ =>
          /\ touchMgr' = touchMgr
          /\ lastPollTime' = lastPollTime
          /\ op' = "touch" => touchInterrupt' = touchInterrupt
          /\ evRet'.gesture = "NONE"
          /\ settings' = settings /\ uiEv' = uiEv
          /\ (/\ op' = "button"
              /\ ~buttonPin /\ lastButtonState
              /\ millis - lastButtonTime > 200) =>
                /\ uiMgr.currentScreen_ = "MAIN_GAUGE" => uiMgr'.currentScreen_ = "SETTINGS"
                /\ uiMgr.currentScreen_ = "SETTINGS" => uiMgr'.currentScreen_ = "MAIN_GAUGE"
          /\ uiMgr'.currentScreen_ # uiMgr.currentScreen_ => op' = "button" ]_vars

\* without a touch controller, with a finger on the panel and the interrupt
\* raised, the button has opened Settings and returned to the gauge
C9_Witness ==
    /\ ~touchMgr.initialized_
    /\ buttonNav = 2
    /\ uiMgr.currentScreen_ = "MAIN_GAUGE"
    /\ panel.fingerNum = 1
    /\ touchInterrupt
    /\ op = "touch"

\* the tap point lies in the back region, or in none of the three regions
InBackRegion(x, y) == x >= 70 /\ x <= 170 /\ y >= 195 /\ y <= 230
InBleRegion(x, y) == x >= 30 /\ x <= 210 /\ y >= 60 /\ y <= 100
InSerialRegion(x, y) == x >= 30 /\ x <= 210 /\ y >= 110 /\ y <= 150

\* C10: the UI starts in MainGauge; handleTouch with a Tap in MainGauge moves
\* to Settings; handleTouch with a Tap in Settings whose point is inside the
\* back region or outside all three regions moves to MainGauge.
C10_TapNavigation ==
    /\ uiMgr.currentScreen_ = "MAIN_GAUGE"
    /\ [][ (op' = "handleTouch" /\ uiEv'.gesture = "TAP") =>
             /\ uiMgr.currentScreen_ = "MAIN_GAUGE" => uiMgr'.currentScreen_ = "SETTINGS"
             /\ (/\ uiMgr.currentScreen_ = "SETTINGS"
                 /\ \/ InBackRegion(uiEv'.x, uiEv'.y)
                    \/ ~(\/ InBleRegion(uiEv'.x, uiEv'.y)
                         \/ InSerialRegion(uiEv'.x, uiEv'.y)
                         \/ InBackRegion(uiEv'.x, uiEv'.y))) =>
                   uiMgr'.currentScreen_ = "MAIN_GAUGE" ]_vars

\* a Tap outside all regions has just brought the UI back from Settings
C10_Witness ==
    /\ op = "handleTouch"
    /\ uiEv.gesture = "TAP"
    /\ uiEv.x = 120 /\ uiEv.y = 170
    /\ uiMgr.currentScreen_ = "MAIN_GAUGE"
    /\ uiRet

\* C11 (as stated): screenChanged() returns true exactly once per screen
\* transition: it returns true exactly when a transition (the construction
\* counted as the first) has not yet been answered by a true result of its own.
C11_OncePerTransition ==
    [][ op' = "screenChanged" => (uiRet' = (owedTrans > 0)) ]_vars

\* C11 (amended): screenChanged() returns true exactly when at least one
\* transition (or the construction) happened since the previous call, however
\* many they were, and false on every other call.
C11_OncePerBurst ==
    [][ op' = "screenChanged" =>
          /\ uiRet' = (nTrans > 0)
          /\ ~uiMgr'.screenChanged_ ]_vars

\* screenChanged() has just returned true once for two transitions
C11_Witness ==
    /\ op = "screenChanged"
    /\ uiRet
    /\ nTrans = 0
    /\ owedTrans = 1
    /\ ~uiMgr.screenChanged_


\* C12: a LongPress dispatched while MainGauge is active leaves the screen
\* alone and raises the peak-reset request; the peak step of loop() calls
\* processor.resetPeak() exactly when the request is raised and clears it, so
\* between loop iterations the resets made equal the long presses dispatched.
C12_LongPressResetsPeakOnce ==
    /\ [](pc = "button" => nPeakResets = nLongPress)
    /\ [][ /\ (/\ op' = "touch"
               /\ evRet'.gesture = "LONG_PRESS"
               /\ uiMgr.currentScreen_ = "MAIN_GAUGE") =>
                  /\ uiMgr'.currentScreen_ = "MAIN_GAUGE"
                  /\ uiMgr'.peakResetPending_
           /\ op' = "peak" =>
                  /\ uiRet' = uiMgr.peakResetPending_
                  /\ ~uiMgr'.peakResetPending_
                  /\ (nPeakResets' # nPeakResets) => uiRet'
                  /\ uiRet' => GetPeakMagnitude(processor') = Zero
           /\ (nPeakResets' # nPeakResets) => op' = "peak" ]_vars

\* the second long press on the gauge screen has had its peak reset
C12_Witness ==
    /\ op = "peak"
    /\ uiRet
    /\ nLongPress = 2
    /\ nPeakResets = 2
    /\ uiMgr.currentScreen_ = "MAIN_GAUGE"
    /\ ~uiMgr.peakResetPending_


\* C13: the settings start as {bleEnabled = true, serialEnabled = true}, and a
\* step changes them only when it is a touch step that dispatches a Tap while
\* Settings is active, the tap point lying in the BLE toggle region (then
\* bleEnabled alone flips) or in the serial toggle region (then serialEnabled
\* alone flips): button steps, taps that navigate, long presses, serial
\* commands and BLE commands leave both booleans unchanged.
C13_SettingsChangeOnlyByToggle ==
    /\ settings = [bleEnabled |-> TRUE, serialEnabled |-> TRUE]
    /\ [][ /\ settings' # settings =>
                /\ op' = "touch"
                /\ evRet'.gesture = "TAP"
                /\ uiMgr.currentScreen_ = "SETTINGS"
                /\ uiMgr'.currentScreen_ = "SETTINGS"
                /\ \/ /\ InBleRegion(evRet'.x, evRet'.y)
                      /\ settings' = [settings EXCEPT !.bleEnabled = ~settings.bleEnabled]
                   \/ /\ InSerialRegion(evRet'.x, evRet'.y)
                      /\ settings' = [settings EXCEPT !.serialEnabled = ~settings.serialEnabled]
           /\ op' \in {"button", "peak", "serial", "onWriteControl", "onWriteConfig",
                       "onConnect", "onDisconnect"} => settings' = settings
           /\ (op' = "touch" /\ evRet'.gesture = "LONG_PRESS") => settings' = settings
           /\ (op' = "touch" /\ uiMgr'.currentScreen_ # uiMgr.currentScreen_) =>
                settings' = settings ]_vars

\* the button has opened Settings, a serial command has been received, and a
\* tap in the serial toggle region has just switched the debug stream off
C13_Witness ==
    /\ op = "touch"
    /\ evRet.gesture = "TAP"
    /\ InSerialRegion(evRet.x, evRet.y)
    /\ settings = [bleEnabled |-> TRUE, serialEnabled |-> FALSE]
    /\ uiMgr.currentScreen_ = "SETTINGS"
    /\ serialIn # <<>>
    /\ buttonNav > 0


\* the button step about to run honours a press (a change of the level to LOW)
HonouredPress ==
    /\ ~buttonPin
    /\ ButtonHonoured(buttonPin, lastButtonState, lastButtonTime, millis)

\* C14 as stated: an honoured press while Settings is active returns the UI to
\* MainGauge, and the screen at the end of that loop iteration is MainGauge
\* whatever gesture the touch step of the same iteration dispatches; an
\* honoured press while MainGauge is active opens Settings; a release or a
\* held button causes no transition.
C14_ButtonWinsIteration ==
    /\ []((pc = "button" /\ pressedFrom = "SETTINGS") => uiMgr.currentScreen_ = "MAIN_GAUGE")
    /\ [][ op' = "button" =>
             /\ (HonouredPress /\ uiMgr.currentScreen_ = "SETTINGS") =>
                   uiMgr'.currentScreen_ = "MAIN_GAUGE"
             /\ (HonouredPress /\ uiMgr.currentScreen_ = "MAIN_GAUGE") =>
                   uiMgr'.currentScreen_ = "SETTINGS"
             /\ ~HonouredPress => uiMgr' = uiMgr ]_vars

\* C14: the button step of an honoured press while Settings is active leaves
\* MainGauge active, whatever the panel reports, and the screen at the end of
\* that loop iteration is MainGauge unless the touch step of the same
\* iteration dispatched a Tap, which is handled on MainGauge and opens
\* Settings again; the button step of an honoured press while MainGauge is
\* active opens Settings; a release or a held button causes no transition.
C14_ButtonToggles ==
    /\ []((pc = "button" /\ pressedFrom = "SETTINGS") =>
            uiMgr.currentScreen_ = IF evRet.gesture = "TAP" THEN "SETTINGS" ELSE "MAIN_GAUGE")
    /\ [][ op' = "button" =>
             /\ (HonouredPress /\ uiMgr.currentScreen_ = "SETTINGS") =>
                   uiMgr'.currentScreen_ = "MAIN_GAUGE"
             /\ (HonouredPress /\ uiMgr.currentScreen_ = "MAIN_GAUGE") =>
                   uiMgr'.currentScreen_ = "SETTINGS"
             /\ ~HonouredPress => uiMgr' = uiMgr ]_vars

\* the iteration whose button step honoured a press in Settings has ended
\* on MainGauge, with a finger on the panel and a long press dispatched
C14_Witness ==
    /\ pc = "button"
    /\ op = "peak"
    /\ pressedFrom = "SETTINGS"
    /\ uiMgr.currentScreen_ = "MAIN_GAUGE"
    /\ evRet.gesture = "LONG_PRESS"


\* C15: the button step honours a change of the button level (it records the
\* new level as accepted) when and only when at least 200 ms have passed since
\* the last accepted change: a change observed exactly 200 ms after the last
\* accepted one is honoured, one observed earlier is not.
C15_DebounceAtLeast200 ==
    [][ op' = "button" =>
          ( (lastButtonState' # lastButtonState)
            <=> (buttonPin # lastButtonState /\ U32Sub(millis, lastButtonTime) >= 200) ) ]_vars


\* the value of a rate r clamped to the range of the notification rate
ClampRate(r) == IF r < 5 THEN 5 ELSE IF r > 50 THEN 50 ELSE r

\* C16: the notification rate lies in [BLE_MIN_NOTIFY_RATE_HZ,
\* BLE_MAX_NOTIFY_RATE_HZ] = [5, 50] in every reachable state, and every
\* setNotificationRate(r) with r in 0..255, a write to the configuration
\* characteristic included, stores r clamped to the nearest bound: no write
\* is rejected.
C16_RateClamped ==
    /\ BLE_MIN_NOTIFY_RATE_HZ = 5 /\ BLE_MAX_NOTIFY_RATE_HZ = 50
    /\ [](bleService.notificationRateHz_ \in 5..50)
    /\ [][ (op' = "setNotificationRate" \/ (op' = "onWriteConfig" /\ rateArg' # rateArg)) =>
             bleService'.notificationRateHz_ = ClampRate(rateArg') ]_vars

\* a peer has just written 255 to the configuration characteristic
C16_Witness ==
    /\ op = "onWriteConfig"
    /\ rateArg = 255
    /\ bleService.notificationRateHz_ = 50
    /\ bleService.deviceConnected_


\* the character a serialEvent() step reads as the rate digit of a set-rate
\* command, "none" when the input is not one set-rate command
RequestedDigit ==
    IF expectingRateDigit /\ Len(serialIn') = 1 THEN serialIn'[1]
    ELSE IF ~expectingRateDigit /\ Len(serialIn') = 2 /\ serialIn'[1] \in {"s", "S"}
    THEN serialIn'[2]
    ELSE "none"

\* the rate digits outside s1..s4
OutOfRangeDigits == {"0", "5", "6", "7", "8", "9"}

\* the valid bound nearest to an out-of-range rate
NearestRate(r) == IF r < 100 THEN 100 ELSE IF r > 800 THEN 800 ELSE r

\* C17 as stated: an out-of-range rate request delivered through the command
\* intake is clamped silently to the nearest valid bound and applied (the
\* sample rate becomes that bound and no line is printed); it is never rejected.
C17_OutOfRangeClamped ==
    [][ /\ (op' = "setSampleRate" /\ (rateArg' < 100 \/ rateArg' > 800)) =>
              /\ currentSampleRateHz' = NearestRate(rateArg')
              /\ serialOut' = <<>>
        /\ (op' = "serial" /\ RequestedDigit \in OutOfRangeDigits) =>
              /\ currentSampleRateHz' = IF RequestedDigit = "0" THEN 100 ELSE 800
              /\ serialOut' = <<>> ]_vars

\* C17: an out-of-range rate request delivered through the command intake is
\* rejected, never clamped: setSampleRate prints an "Invalid rate" line,
\* returns false and leaves the sample rate in force unchanged, and the
\* set-rate command with a digit outside 1..4 prints an "Invalid rate" line
\* and leaves the sample rate in force unchanged.
C17_OutOfRangeRejected ==
    [][ /\ (op' = "setSampleRate" /\ (rateArg' < 100 \/ rateArg' > 800)) =>
              /\ currentSampleRateHz' = currentSampleRateHz
              /\ uiRet' = FALSE
              /\ serialOut' = <<"Invalid rate">>
        /\ (op' = "serial" /\ RequestedDigit \in OutOfRangeDigits) =>
              /\ currentSampleRateHz' = currentSampleRateHz
              /\ rateArg' = rateArg
              /\ serialOut' = <<"Invalid rate. Use s1-s4">> ]_vars

\* with 800 Hz in force the command s9 has just been refused
C17_Witness ==
    /\ op = "serial"
    /\ serialIn = <<"s", "9">>
    /\ serialOut = <<"Invalid rate. Use s1-s4">>
    /\ currentSampleRateHz = 800
    /\ rateArg = 800
    /\ ~expectingRateDigit


\* C18: a sample step that observes the trigger and whose sensor read fails
\* changes nothing but the trigger flag, which it clears: the four filters,
\* the last filtered sample and the peak stay exactly as before, nothing is
\* written to the debug stream, and sensorOk stays set, so that the sample
\* step that observes the next trigger attempts the read again (a sample
\* step attempts the read exactly when the trigger is set and the sensor was
\* found at startup, whatever earlier reads did).
C18_FailedReadSkipped ==
    [][ op' = "sample" =>
          /\ readResult' = "failed" =>
                /\ sampleFlag /\ ~sampleFlag'
                /\ processor' = processor
                /\ rawHist' = rawHist /\ nProcessed' = nProcessed
                /\ serialOut' = <<>>
                /\ sensorOk' = sensorOk
                /\ settings' = settings /\ uiMgr' = uiMgr /\ gaugeMax' = gaugeMax
                /\ bleService' = bleService
          /\ (readResult' # "idle") <=> (sampleFlag /\ sensorOk)
          /\ (readResult = "failed" /\ sampleFlag) => readResult' # "idle" ]_vars

\* after samples were filtered and a peak recorded, a read has just failed
C18_Witness ==
    /\ op = "sample"
    /\ readResult = "failed"
    /\ ~sampleFlag
    /\ sensorOk
    /\ nProcessed = 2
    /\ FGreater(GetPeakMagnitude(processor), FromInt(1))


\* C19: BleService::begin or BleService::stop is executed in a step exactly
\* when that step changes settings.bleEnabled, and then once (the count of
\* executions grows by one), begin for a change to true and stop for a
\* change to false; a step, and so a loop iteration, in which
\* settings.bleEnabled does not change executes neither, and between
\* iterations the service is enabled exactly when the setting is.
C19_StartStopOncePerChange ==
    /\ [](pc = "button" => bleService.bleEnabled_ = settings.bleEnabled)
    /\ [][ /\ (settings'.bleEnabled # settings.bleEnabled) =>
                (bleService.runs < MaxRuns => bleService'.runs = bleService.runs + 1)
           /\ (settings'.bleEnabled = settings.bleEnabled) =>
                bleService'.runs = bleService.runs
           /\ (settings'.bleEnabled # settings.bleEnabled) =>
                /\ op' = "touch"
                /\ bleService'.bleEnabled_ = settings'.bleEnabled
                /\ bleService'.started = settings'.bleEnabled
                /\ ~settings'.bleEnabled => ~bleService'.deviceConnected_
           /\ (settings'.bleEnabled = settings.bleEnabled) =>
                /\ bleService'.started = bleService.started
                /\ bleService'.bleEnabled_ = bleService.bleEnabled_ ]_vars

\* wireless was switched off by a tap on the toggle and a second tap on the
\* toggle has just started it again: begin, stop, begin have run
C19_Witness ==
    /\ op = "touch"
    /\ evRet.gesture = "TAP"
    /\ InBleRegion(evRet.x, evRet.y)
    /\ settings.bleEnabled
    /\ bleService.started
    /\ bleService.bleEnabled_
    /\ bleService.runs = 3
    /\ ~bleService.deviceConnected_


\* C20: a notification step sends a data notification (notifyAccelData) only
\* if wireless is enabled in the settings, a peer is connected, and at least
\* 1000 / rateHz ms (the integer quotient the loop computes) lie between the
\* loop time of the previous notification and that of this one; no
\* notification is sent while wireless is disabled or no peer is connected.
C20_NotifyOnlyWhenDue ==
    [][ /\ (op' = "notify" /\ notified') =>
              /\ settings.bleEnabled
              /\ bleService.deviceConnected_ /\ bleService'.deviceConnected_
              /\ bleService.bleEnabled_ /\ bleService.started
              /\ notifiedAt # -1 =>
                    U32Sub(now, notifiedAt) >= 1000 \div bleService.notificationRateHz_
        /\ (notifiedAt' # notifiedAt) => (op' = "notify" /\ notified' /\ notifiedAt' = now)
        /\ (op' = "notify" /\ (~settings.bleEnabled \/ ~bleService.deviceConnected_)) =>
              ~notified' ]_vars

\* at 30 Hz, with a peer connected, a notification has just gone out at loop
\* time 33, which is 1000 / 30 = 33 ms after lastBLENotifyTime was set
C20_Witness ==
    /\ op = "notify"
    /\ notified
    /\ notifiedAt = 33
    /\ lastBLENotifyTime = 33
    /\ bleService.notificationRateHz_ = 30
    /\ bleService.deviceConnected_
    /\ settings.bleEnabled


\* C21: output to the debug stream is gated entirely by settings.serialEnabled:
\* a step of loop() or a command handler that runs while
\* settings.serialEnabled is false writes nothing to the debug stream.
C21_DebugStreamGated ==
    [][ (~settings.serialEnabled
         /\ op' \in {"sample", "button", "touch", "peak", "serial", "setSampleRate"}) =>
            serialOut' = <<>> ]_vars

\* C22: once sensor initialization has failed (sensorOk is false) it stays
\* failed; no sample step reads the sensor or feeds the filter, no data
\* notification is sent, every refresh of the gauge screen renders axes
\* (0,0,0), magnitude 0 and peak 0, and the button step still toggles the
\* screen on every honoured press.
C22_DegradedForever ==
    /\ [](~sensorOk =>
            /\ readResult = "idle"
            /\ nProcessed = 0
            /\ processor = SignalProcessorNew
            /\ ~notified
            /\ notifiedAt = -1
            /\ (drawn.refreshed /\ drawn.screen = "MAIN_GAUGE") =>
                    /\ drawn.data = AccelZero
                    /\ drawn.magnitude = Zero
                    /\ drawn.peak = Zero)
    /\ [][ ~sensorOk =>
             /\ ~sensorOk'
             /\ (op' = "button" /\ HonouredPress) =>
                    uiMgr'.currentScreen_ = IF uiMgr.currentScreen_ = "MAIN_GAUGE"
                                            THEN "SETTINGS" ELSE "MAIN_GAUGE" ]_vars

\* with the sensor absent: the timer has fired, a peer is connected, the
\* button has switched the screen twice, and the iteration has refreshed the
\* gauge and run its notification step
C22_Witness ==
    /\ ~sensorOk
    /\ sampleFlag
    /\ bleService.deviceConnected_
    /\ buttonNav = 2
    /\ drawn.refreshed
    /\ drawn.screen = "MAIN_GAUGE"
    /\ op = "notify"

\* a ring buffer with its cells, index, count and sum at zero
Cleared(f) ==
    /\ \A i \in DOMAIN f.buffer : f.buffer[i] = 0
    /\ f.index = 0
    /\ f.count = 0
    /\ f.sum = 0

C24_CommandsIdempotent ==
    LET st == [proc |-> processor, gauge |-> gaugeMax, hist |-> rawHist, n |-> nProcessed]
        ss == [expecting |-> FALSE, rate |-> currentSampleRateHz,
               timer |-> sampleTimerUs, accel |-> accelRate, present |-> sensorOk,
               proc |-> processor, gauge |-> gaugeMax,
               hist |-> rawHist, n |-> nProcessed, arg |-> rateArg, out |-> <<>>]
    IN  /\ \A cmd \in {BLE_CMD_RESET_PEAK, BLE_CMD_RESET_FILTERS} :
              LET once == CommandCallback(st, cmd)
                  twice == CommandCallback(once, cmd)
              IN  twice.proc = once.proc /\ twice.gauge = once.gauge
        /\ \A c \in {"r", "R", "c", "C"} :
              LET once == SerialEvent(ss, <<c>>, settings)
                  twice == SerialEvent(ss, <<c, c>>, settings)
              IN  twice.proc = once.proc /\ twice.gauge = once.gauge

\* in the middle of an iteration the filters hold samples, a peak is
\* recorded and the gauge scale has been raised two ranges
C24_Witness ==
    /\ pc = "touch"
    /\ processor.filterMag_.count > 0
    /\ FGreater(processor.peakMagnitude_, Zero)
    /\ gaugeMax = 50

\* C25: handleTouch returns true exactly when the event triggered an action:
\* a screen transition, a settings toggle, or a peak-reset request (a
\* LongPress handled on MainGauge); it returns false for every event that
\* changes nothing.
C25_TrueIffAction ==
    [][ op' = "handleTouch" =>
          ( uiRet' <=>
              \/ uiMgr'.currentScreen_ # uiMgr.currentScreen_
              \/ settings' # settings
              \/ /\ uiEv'.gesture = "LONG_PRESS"
                 /\ uiMgr.currentScreen_ = "MAIN_GAUGE"
                 /\ uiMgr'.peakResetPending_ ) ]_vars

\* C26: setSampleRate(rateHz) returns true and sets currentSampleRateHz to
\* rateHz and the timer interval to 1000000/rateHz microseconds exactly when
\* rateHz is one of 100, 200, 400, 800; for any other value it returns false
\* and leaves currentSampleRateHz, the timer and the sensor data rate
\* unchanged; currentSampleRateHz is always one of the valid rates.
C26_SetSampleRateValidOnly ==
    /\ [](currentSampleRateHz \in {100, 200, 400, 800})
    /\ [][ op' = "setSampleRate" =>
             IF rateArg' \in {100, 200, 400, 800}
             THEN /\ uiRet'
                  /\ currentSampleRateHz' = rateArg'
                  /\ sampleTimerUs' = 1000000 \div rateArg'
             ELSE /\ ~uiRet'
                  /\ currentSampleRateHz' = currentSampleRateHz
                  /\ sampleTimerUs' = sampleTimerUs
                  /\ accelRate' = accelRate ]_vars

\* setSampleRate(1600) has just been refused with 400 Hz in force
C26_Witness ==
    /\ op = "setSampleRate"
    /\ rateArg = 1600
    /\ ~uiRet
    /\ currentSampleRateHz = 400
    /\ sampleTimerUs = 2500
    /\ accelRate = 400

\* C27: after setEnabled(false) returns, isEnabled() and isConnected() are
\* both false; after setEnabled(true) returns, isEnabled() is true; setEnabled
\* with the value isEnabled() already has changes nothing in the BleService.
C27_SetEnabledPostconditions ==
    [][ \A enabled \in BOOLEAN :
          BleSetEnabledCall(enabled) =>
              /\ ~enabled => (~IsEnabled(bleService') /\ ~IsConnected(bleService'))
              /\ enabled => IsEnabled(bleService')
              /\ (enabled = IsEnabled(bleService)) => bleService' = bleService ]_vars

\* setEnabled(false) has just stopped the service that setup() started
C27_Witness ==
    /\ op = "setEnabled"
    /\ ~IsEnabled(bleService)
    /\ ~IsConnected(bleService)
    /\ ~bleService.started
    /\ bleService.runs = 2

\* C28 (as stated): the display step calls display.prepareScreen() exactly
\* once per screen transition, at the first refresh after the transition: a
\* refresh prepares exactly when a transition (the construction counted as the
\* first) has not had its redraw yet, and after a refresh no transition is
\* left without one; a step that does not refresh prepares nothing.
C28_RedrawOncePerTransition ==
    [][ op' = "display" =>
          IF drawn'.refreshed
          THEN /\ drawn'.prepared = (owedTrans > 0)
               /\ owedTrans' = 0
          ELSE ~drawn'.prepared /\ owedTrans' = owedTrans ]_vars

\* C28 (amended): a display refresh calls display.prepareScreen() exactly when
\* at least one screen transition (or the construction) happened since the
\* previous refresh, however many they were and however many loop iterations
\* passed, and it consumes the mark; a display step that is not due to
\* refresh prepares nothing and leaves the mark for the next refresh.
C28_RedrawOncePerBurst ==
    [][ op' = "display" =>
          IF drawn'.refreshed
          THEN /\ drawn'.prepared = (nTrans > 0)
               /\ drawn'.prepared = uiMgr.screenChanged_
               /\ ~uiMgr'.screenChanged_
               /\ drawn'.screen = uiMgr.currentScreen_
          ELSE /\ ~drawn'.prepared
               /\ uiMgr' = uiMgr ]_vars

\* a refresh has just prepared the screen once although two transitions had
\* happened since the previous refresh
C28_Witness ==
    /\ op = "display"
    /\ drawn.refreshed
    /\ drawn.prepared
    /\ lastDisplayTime > 100
    /\ owedTrans = 1
    /\ nTrans = 0

\* C29: no sample trigger is lost: in every interleaving of the timer ISR with
\* the loop's test and clear of sampleFlag each firing is followed by a sample
\* read of its own, so whenever the flag is clear no firing is still waiting
\* for its read, also when a firing landed between the test and the clear.
C29_NoTriggerLost ==
    ~sampleFlag => unserved = 0

\* C30: the filter state, the gauge scale and the notification rate are
\* written only by steps of the cooperative loop: no step of the timer ISR,
\* of the touch ISR or of a BLE stack callback (onConnect, onDisconnect,
\* onWrite on either characteristic) changes the SignalProcessor,
\* Display::gaugeMax_ or the notification rate (from which it follows that
\* no filter reset can run while the loop is inside process()).
C30_OnlyLoopMutates ==
    [][ (\/ processor' # processor
         \/ gaugeMax' # gaugeMax
         \/ GetNotificationRate(bleService') # GetNotificationRate(bleService)) =>
            op' \notin {"env", "isr", "onConnect", "onDisconnect",
                        "onWriteControl", "onWriteConfig"} ]_vars

(***************************************************************************)
(* The ladder of loop(): every iteration runs the sample, button, touch,   *)
(* peak, display, notification and serial steps in the order of main.cpp   *)
(* lines 212-335                                                           *)
(***************************************************************************)
\* the values of op inside an iteration of loop(): one of its steps but the
\* last ran.  With any other value an iteration can begin: setup() or the
\* serial step of the previous iteration ran last, or the environment or a
\* callback of the BLE stack moved between two iterations
MidIteration == {"sample", "button", "touch", "peak", "display", "notify"}

\* --- the ladder with samples arriving, the accelerometer found or not
LadderInstants == {0, 100}

NextLadder ==
    \/ \E t \in LadderInstants : op \notin MidIteration /\ Tick(t)
    \/ op \notin MidIteration /\ BleOnConnect
    \/ SampleTimerPreempt
    \/ \E readOk \in BOOLEAN, raw \in SampleInputs :
           /\ op \notin MidIteration
           /\ raw = SpikeSample => nProcessed < MaxFed
           /\ LoopSample(readOk, raw)
    \/ op = "sample" /\ LoopButton
    \/ LoopTouch(TRUE, TRUE)
    \/ LoopPeakReset
    \/ LoopDisplay
    \/ op = "display" /\ LoopNotify(FALSE)
    \/ op = "notify" /\ LoopSerial(<<>>)

SpecLadder == InitSample /\ [][NextLadder]_vars

\* the step s of loop() runs (a preempting interrupt leaves op alone)
Ran(s) == op' = s /\ op # s

\* the steps of an iteration run in the order of the ladder
LadderOrder ==
    /\ Ran("sample") => op \notin MidIteration
    /\ Ran("button") => op = "sample"
    /\ Ran("touch") => op = "button"
    /\ Ran("peak") => op = "touch"
    /\ Ran("display") => op = "peak"
    /\ Ran("notify") => op = "display"
    /\ Ran("serial") => op = "notify"

\* a sample step: it reads at most one sample, and on success the filter has
\* taken exactly that sample in
OneSampleRead ==
    Ran("sample") =>
        \/ readResult' = "idle" /\ processor' = processor /\ sampleFlag' = sampleFlag
        \/ readResult' = "failed" /\ processor' = processor
        \/ /\ readResult' = "ok"
           /\ \E raw \in SampleInputs : processor' = Process(processor, raw)

ResetInstants == {0, 500}
ResetPoints == {<<10, 10>>}

NextReset ==
    \/ \E t \in ResetInstants : op \notin MidIteration /\ Tick(t)
    \/ \E pt \in ResetPoints : op \notin MidIteration /\ FingerDown(pt)
    \/ op \notin MidIteration /\ FingerUp
    \/ op \notin MidIteration /\ TouchISR
    \/ op \notin MidIteration /\ BleOnConnect
    \/ op \notin MidIteration /\ nProcessed < MaxFed /\ SampleTimerISR
    \/ \E raw \in SampleInputs : op \notin MidIteration /\ LoopSample(TRUE, raw)
    \/ op = "sample" /\ LoopButton
    \/ LoopTouch(TRUE, TRUE)
    \/ LoopPeakReset
    \/ LoopDisplay
    \/ op = "display" /\ LoopNotify(FALSE)
    \/ op = "notify" /\ LoopSerial(<<>>)

SpecReset == InitWith(TRUE) /\ [][NextReset]_vars

\* the touch step of the current iteration dispatched a LongPress to the gauge
\* screen (a LongPress changes no screen, so the screen is still the gauge)
LongPressThisIteration ==
    /\ op \in {"touch", "peak", "display", "notify"}
    /\ evRet.gesture = "LONG_PRESS"
    /\ GetScreen(uiMgr) = "MAIN_GAUGE"

PeakInstants == {0, 500, 980, 1000, 1500}

NextPeak ==
    \/ \E t \in PeakInstants : op \notin MidIteration /\ Tick(t)
    \/ op \notin MidIteration /\ BleOnConnect
    \/ op \notin MidIteration /\ BleOnDisconnect
    \/ op \notin MidIteration /\ nProcessed < MaxFed /\ SampleTimerISR
    \/ \E raw \in SampleInputs : op \notin MidIteration /\ LoopSample(TRUE, raw)
    \/ op = "sample" /\ LoopButton
    \/ LoopTouch(TRUE, TRUE)
    \/ LoopPeakReset
    \/ LoopDisplay
    \/ \E dropped \in BOOLEAN : op = "display" /\ LoopNotify(dropped)
    \/ op = "notify" /\ LoopSerial(<<>>)

SpecPeak == InitWith(TRUE) /\ [][NextPeak]_vars

\* two peak notifications are at least 500 ms apart
PeakNotesApart ==
    Ran("notify") /\ peakNote'.sent /\ peakNote.at >= 0 =>
        U32Sub(now, peakNote.at) >= PEAK_NOTIFY_INTERVAL_MS

C34_ClassifiedOnRelease ==
    [][ (op' = "update" /\ touchMgr.initialized_) =>
          /\ touchMgr.lastTouching_ = touchMgr.touching_
          /\ touchMgr'.lastTouching_ = touchMgr'.touching_
          /\ (lastDuration' # -1) <=> (touchMgr.touching_ /\ ~touchMgr'.touching_)
          /\ lastDuration' # -1 => ~touchMgr'.touching_ /\ ~touchMgr'.lastTouching_
          /\ lastDuration' = -1 =>
                /\ touchMgr'.currentEvent_ = touchMgr.currentEvent_
                /\ touchMgr'.eventPending_ = touchMgr.eventPending_
          /\ touchMgr'.touching_ => lastDuration' = -1 ]_vars

\* a contact held for 1160 ms was classified as a LongPress on the update()
\* that saw it released, and the recognizer is Idle
C34_Witness ==
    /\ op = "update"
    /\ lastDuration = 1160
    /\ touchMgr.currentEvent_.gesture = "LONG_PRESS"
    /\ touchMgr.currentEvent_.timestamp = 1160
    /\ touchMgr.eventPending_
    /\ ~touchMgr.touching_
    /\ ~touchMgr.lastTouching_

\* C35: an emitted Tap or LongPress carries the coordinates of the last read
\* made while the contact was active: every successful read that finds the
\* finger on the panel stores the panel's coordinates, the first of a contact
\* as well as the later ones; the read that finds the finger gone stores
\* none; and the event classified on release carries the stored ones.
C35_LastActiveCoordinates ==
    [][ (op' = "update" /\ touchMgr.initialized_) =>
          /\ ( /\ touchMgr'.touching_
               /\ <<touchMgr'.touchX_, touchMgr'.touchY_>> # <<touchMgr.touchX_, touchMgr.touchY_>> )
             => /\ panel.fingerNum > 0
                /\ <<touchMgr'.touchX_, touchMgr'.touchY_>> = <<panel.x, panel.y>>
          /\ \A pollOk \in BOOLEAN :
                ( /\ TMUpdate(pollOk, TRUE)
                  /\ touchMgr.touching_ \/ touchInterrupt
                  /\ panel.fingerNum > 0 )
                => /\ touchMgr'.touching_
                   /\ <<touchMgr'.touchX_, touchMgr'.touchY_>> = <<panel.x, panel.y>>
          /\ ~touchMgr'.touching_ =>
                <<touchMgr'.touchX_, touchMgr'.touchY_>> = <<touchMgr.touchX_, touchMgr.touchY_>>
          /\ (lastDuration' # -1 /\ touchMgr'.currentEvent_.gesture # "NONE") =>
                /\ touchMgr'.currentEvent_.x = touchMgr.touchX_
                /\ touchMgr'.currentEvent_.y = touchMgr.touchY_ ]_vars

\* a Tap carries the point the finger had moved to when last read, and not
\* the point it was at when the release was read
C35_Witness ==
    /\ op = "update"
    /\ lastDuration = 150
    /\ touchMgr.currentEvent_.gesture = "TAP"
    /\ touchMgr.eventPending_
    /\ <<touchMgr.currentEvent_.x, touchMgr.currentEvent_.y>> = <<10, 10>>
    /\ <<panel.x, panel.y>> = <<120, 80>>

\* --- taps on and around the borders of the regions of the settings screen
HitPoints ==
    {<<30, 60>>, <<210, 100>>, <<29, 60>>, <<30, 59>>, <<211, 100>>, <<210, 101>>,
     <<30, 110>>, <<210, 150>>, <<29, 110>>, <<30, 109>>, <<211, 150>>, <<210, 151>>,
     <<70, 195>>, <<170, 230>>, <<69, 195>>, <<70, 194>>, <<171, 230>>, <<170, 231>>,
     <<120, 80>>, <<120, 130>>, <<120, 210>>, <<120, 105>>}

HitEvents ==
    {[gesture |-> g, x |-> pt[1], y |-> pt[2], timestamp |-> 0] :
        g \in {"TAP", "LONG_PRESS"}, pt \in HitPoints}

NextHit ==
    \/ \E event \in HitEvents : UIHandleTouch(event)
    \/ UIScreenChanged

SpecHit == Init /\ [][NextHit]_vars

\* the regions as the claim words them
InToggleWireless(x, y) == 30 <= x /\ x <= 210 /\ 60 <= y /\ y <= 100
InToggleDebugStream(x, y) == 30 <= x /\ x <= 210 /\ 110 <= y /\ y <= 150
InBack(x, y) == 70 <= x /\ x <= 170 /\ 195 <= y /\ y <= 230

\* C36: in Settings a Tap is hit-tested by an inclusive point-in-rectangle
\* test over toggle-wireless (30,60)-(210,100), toggle-debug-stream
\* (30,110)-(210,150) and back (70,195)-(170,230), the first match winning; a
\* hit on a toggle region flips that one boolean of the settings and leaves
\* the other boolean, the active screen and the screen-changed flag as they
\* were (a Tap elsewhere leaves both booleans alone).
C36_ToggleFrame ==
    [][ ( /\ op' = "handleTouch"
          /\ GetScreen(uiMgr) = "SETTINGS"
          /\ uiEv'.gesture = "TAP" ) =>
          LET x == uiEv'.x
              y == uiEv'.y
          IN  /\ InToggleWireless(x, y) =>
                    /\ settings'.bleEnabled = ~settings.bleEnabled
                    /\ settings'.serialEnabled = settings.serialEnabled
                    /\ uiMgr' = uiMgr
              /\ (~InToggleWireless(x, y) /\ InToggleDebugStream(x, y)) =>
                    /\ settings'.serialEnabled = ~settings.serialEnabled
                    /\ settings'.bleEnabled = settings.bleEnabled
                    /\ uiMgr' = uiMgr
              /\ (~InToggleWireless(x, y) /\ ~InToggleDebugStream(x, y)) =>
                    /\ settings' = settings
                    /\ GetScreen(uiMgr') = "MAIN_GAUGE"
              /\ HitTest(x, y) = ACTION_BACK <=>
                    (~InToggleWireless(x, y) /\ ~InToggleDebugStream(x, y) /\ InBack(x, y)) ]_vars

\* a Tap on the corner (210,100) of toggle-wireless has switched wireless off
\* on a settings screen whose change the display has already taken note of
C36_Witness ==
    /\ op = "handleTouch"
    /\ uiEv.gesture = "TAP"
    /\ <<uiEv.x, uiEv.y>> = <<210, 100>>
    /\ GetScreen(uiMgr) = "SETTINGS"
    /\ ~uiMgr.screenChanged_
    /\ ~settings.bleEnabled
    /\ settings.serialEnabled

\* --- the serial parser with a filter that has taken samples in
ParserChars == {"s", "S", "1", "2", "3", "4", "0", "r"}
ParserInputs ==
    {<<c>> : c \in ParserChars} \cup {<<c, d>> : c \in {"s", "S"}, d \in ParserChars}
        \cup {<<"r", "r">>, <<"1", "r">>, <<"r", "s">>}

NextParser ==
    \/ nProcessed < MaxFed /\ SampleTimerISR
    \/ \E raw \in SampleInputs : LoopSample(TRUE, raw)
    \/ \E input \in ParserInputs : LoopSerial(input)

SpecParser == InitWith(TRUE) /\ [][NextParser]_vars

\* the rate a selector stands for, 0 for a character that selects none
RateSelected(c) ==
    CASE c = "1" -> 100 [] c = "2" -> 200 [] c = "3" -> 400 [] c = "4" -> 800 [] OTHER -> 0

\* the step consumed the character c as the rate selector and nothing after it
SelectorEffect(c) ==
    /\ ~expectingRateDigit'
    /\ currentSampleRateHz' = IF RateSelected(c) # 0 THEN RateSelected(c)
                              ELSE currentSampleRateHz
    /\ sampleTimerUs' = IF RateSelected(c) # 0 THEN 1000000 \div RateSelected(c)
                        ELSE sampleTimerUs
    /\ processor' = processor
    /\ gaugeMax' = gaugeMax
    /\ rawHist' = rawHist /\ nProcessed' = nProcessed

\* C37: after an 's' or 'S' exactly the next character received, in the same
\* serialEvent call or in a later one, is consumed as the rate selector and
\* is not interpreted as a command: '1'..'4' set the sample rate to 100, 200,
\* 400, 800 Hz, any other character leaves the rate, the filters and the peak
\* unchanged; and the parser is in command mode afterwards.
C37_RateSelector ==
    [][ op' = "serial" =>
          /\ (expectingRateDigit /\ Len(serialIn') = 1) => SelectorEffect(serialIn'[1])
          /\ (~expectingRateDigit /\ Len(serialIn') = 2 /\ serialIn'[1] \in {"s", "S"})
                => SelectorEffect(serialIn'[2])
          /\ (~expectingRateDigit /\ Len(serialIn') = 1 /\ serialIn'[1] \in {"s", "S"})
                => /\ expectingRateDigit'
                   /\ currentSampleRateHz' = currentSampleRateHz
                   /\ processor' = processor ]_vars

\* an 'r' that arrived in the call after the one that brought 's' was taken
\* as the selector: the peak the samples had raised is still there
C37_Witness ==
    /\ op = "serial"
    /\ serialIn = <<"r">>
    /\ serialOut = <<"Invalid rate. Use s1-s4">>
    /\ ~expectingRateDigit
    /\ nProcessed > 0
    /\ FGreater(GetPeakMagnitude(processor), Zero)
    /\ currentSampleRateHz = 800

\* C38: at the end of setup() and at the end of every loop iteration
\* bleService.isEnabled() equals settings.bleEnabled, whatever taps, long
\* presses and button presses came before.
C38_EnabledFollowsSetting ==
    pc = "button" => (IsEnabled(bleService) <=> settings.bleEnabled)

\* an iteration ends with wireless off: the button had opened the settings
\* screen and a tap on the toggle switched wireless off
C38_Witness ==
    /\ pc = "button"
    /\ op = "peak"
    /\ buttonNav > 0
    /\ ~settings.bleEnabled
    /\ ~IsEnabled(bleService)
    /\ ~bleService.started

\* --- the ladder on a clock that wraps: the gates fire shortly before the
\* wrap and are evaluated 50 to 300 ms later, after it
WrapInstants == {150, U32 - 150, U32 - 50}
WrapTargets == {0, 50}

NextWrap ==
    \/ \E t \in WrapInstants : op \notin MidIteration /\ Tick(t)
    \/ \E t \in WrapTargets : op \notin MidIteration /\ ClockWrap(t)
    \/ op \notin MidIteration /\ ButtonChange
    \/ op \notin MidIteration /\ BleOnConnect
    \/ op \notin MidIteration /\ LoopSample(TRUE, RestSample)
    \/ op = "sample" /\ LoopButton
    \/ LoopTouch(TRUE, TRUE)
    \/ LoopPeakReset
    \/ LoopDisplay
    \/ op = "display" /\ LoopNotify(FALSE)
    \/ op = "notify" /\ LoopSerial(<<>>)

SpecWrap == InitWith(TRUE) /\ [][NextWrap]_vars

\* the true time since the gate g last fired, at the instant loop() read now
ElapsedSince(g) == trueAt.now - trueAt[g]

\* C39: the gates computed with unsigned 32-bit subtraction stay correct when
\* the millisecond counter wraps: for a true elapsed time below 2^32 ms the
\* display gate opens exactly when 100 ms or more have elapsed since it last
\* fired, the notification gate (wireless enabled, peer connected) exactly
\* when 1000 / rate ms or more have elapsed, and the button gate (level
\* changed) exactly when more than 200 ms have elapsed.
C39_GatesSurviveWrap ==
    [][ /\ (Ran("button") /\ buttonPin # lastButtonState /\ uptime - trueAt.button < U32) =>
              ((lastButtonState' = buttonPin) <=> (uptime - trueAt.button > BUTTON_DEBOUNCE_MS))
        /\ (Ran("display") /\ ElapsedSince("display") < U32) =>
              (drawn'.refreshed <=> (ElapsedSince("display") >= DISPLAY_UPDATE_INTERVAL_MS))
        /\ ( /\ Ran("notify") /\ ElapsedSince("notify") < U32
             /\ settings.bleEnabled /\ IsConnected(bleService) /\ sensorOk ) =>
              (notified' <=>
                  (ElapsedSince("notify") >= 1000 \div GetNotificationRate(bleService))) ]_vars

\* the display gate has opened exactly 100 ms after it last fired, the wrap
\* of the clock lying in between
C39_Witness ==
    /\ op = "display"
    /\ drawn.refreshed
    /\ now = 50
    /\ lastDisplayTime = 50
    /\ uptime = U32 + 50
    /\ trueAt.display = U32 + 50
    /\ trueAt.button = U32 - 150
    /\ trueAt.notify = U32 - 50

(***************************************************************************)
(* C40: stop() interleaved with onDisconnect                               *)
(***************************************************************************)
\* the loop switches the service on and off (setEnabled) while the stack
\* reports connections and their ends; stop() and onDisconnect advance one
\* statement at a time
NextStop ==
    \/ StackConnect
    \/ StopAdvertising
    \/ StopDeinit
    \/ StopClearConnected
    \/ StopClearEnabled
    \/ StopResetPointers
    \/ DisconnectClearConnected
    \/ \E fault \in BOOLEAN : DisconnectRestartAdvertising(fault)
    \/ bleTask.stopAt = 0 /\ ~bleTask.halted /\ ~bleService.bleEnabled_ /\ BleSetEnabledCall(TRUE)

SpecStop == InitWith(TRUE) /\ [][NextStop]_vars

\* stop() and onDisconnect have both returned since the peer connected
StopAndDisconnectDone ==
    bleTask.stopDone /\ bleTask.discDone /\ bleTask.stopAt = 0 /\ bleTask.discAt = 0

\* C40: However the statements of stop() and of onDisconnect interleave,
\* onDisconnect never calls through a null pAdvertising_, and once both have
\* returned deviceConnected_ is false.
C40_StopDisconnectSafe ==
    /\ bleTask.deref # "null"
    /\ StopAndDisconnectDone => ~bleService.deviceConnected_

====
